---- MODULE Spec2Model ----
(***************************************************************************)
(* Model of the GenAgent runtime: the two-layer lane scheduler             *)
(* (command-queue.ts), the run controller (agent.ts), the turn loop        *)
(* (agent-loop.ts), the event stream result (agent-events.ts) and the     *)
(* session tool-result guard (session-tool-result-guard.ts).              *)
(***************************************************************************)
EXTENDS Integers, Sequences, FiniteSets, TLC

(***************************************************************************)
(* Bounds of the model                                                     *)
(***************************************************************************)
\* number of run() invocations (top-level and sub-agent) that are modelled
MaxRuns == 2
\* Agent config maxTurns used by the modelled agent
MaxTurns == 2
\* total number of LLM streaming attempts over all runs
MaxLLMCalls == 2
\* largest number of tool calls the LLM emits in one turn
MaxTools == 2
\* total number of abort(), steer() and further new Agent() calls
MaxApiCalls == 1
\* largest maxConcurrentRuns an Agent is configured with
MaxConc == 2
\* LLM streaming attempts in the single-run retry specification
MaxRetryCalls == 5
\* onHeartbeat(), start(), stop(), requestNow(), trigger() and updateConfig() calls in the
\* heartbeat specification
MaxHeartbeatCalls == 4
\* longest allow and deny list of a policy
MaxPatterns == 2
\* longest history handed to the pruner on its own
MaxPruneLen == 4
\* the context windows (in tokens) the pruner is given
SmallWindowTokens == 1000
LargeWindowTokens == 20000
\* run() calls in the command-queue specification
MaxLaneRuns == 4
\* LLM streaming attempts in the sub-agent specification
MaxSpawnCalls == 3
\* transcript length up to which the guard specification appends
MaxGuardLen == 4
\* longest list of dropped messages handed to the summarizer
MaxDroppedLen == 4
\* summarize calls whose outcome is chosen; later calls return
MaxSummarizeFailures == 6
\* longest history handed to the pruner together with tool rules
MaxPruneToolsLen == 3
\* longest history of text messages handed to the pruner
MaxPruneTextLen == 6

(***************************************************************************)
(* Program constants                                                       *)
(***************************************************************************)
RetryAttempts == 3
ContextTokens == 200000
ReserveTokens == 20000
CHARS_PER_TOKEN_ESTIMATE == 4
KeepLastAssistants == 3
SoftTrimMaxChars == 4000
MinPrunableToolChars == 50000
HardClearPlaceholderChars == 33
BigChars == 800000

EXEC == <<"e", "x", "e", "c">>
BASH == <<"b", "a", "s", "h">>
APPLY_PATCH == <<"a", "p", "p", "l", "y", "_", "p", "a", "t", "c", "h">>
APPLY_DASH_PATCH == <<"a", "p", "p", "l", "y", "-", "p", "a", "t", "c", "h">>

SkippedText == "Skipped due to queued user message."
SyntheticText == "[gen-agent] missing tool result in session history; inserted synthetic error result for transcript repair."
SubagentSummaryText == "[Sub-agent summary]"
AbortedText == "Operation aborted"

VARIABLES
  lanes,            \* command-queue.ts: lanes Map (lane -> LaneState)
  run,              \* per run() invocation: position and the loop's locals
  transcript,       \* SessionManager: session key -> appended messages
  writers,          \* per transcript entry: who appended it, and from where
  pendingBySession, \* guard: session key -> pending tool_use ids (insertion order)
  steeringQueues,   \* Agent.steeringQueues: key string -> queued texts
  nextToolId,       \* next fresh tool_use id handed out by the LLM
  llmCalls,         \* LLM streaming attempts made so far
  apiCalls,         \* abort(), steer() and new Agent() calls made so far
  compactions,      \* SessionManager: session key -> compaction records
  clock,            \* per session: the Date.now() readings taken for its messages
  heartbeat,        \* HeartbeatWake and HeartbeatManager fields, timers, executions
  policyCase,       \* one isToolAllowed evaluation: its inputs and its verdict
  pruneCase,        \* one pruneContextMessages evaluation: its inputs and outputs
  laneCase,         \* the command queue on its own: lanes and the runs queued in them
  guardCase,        \* the tool-result guard on its own: one session's store and the last call
  compactCase       \* one buildCompactionSummary evaluation: its inputs and its result

\* the agent runtime's state
agentVars == <<lanes, run, transcript, writers, pendingBySession, steeringQueues,
               nextToolId, llmCalls, apiCalls, compactions, clock>>

\* the state of the components that are exercised on their own
auxVars == <<heartbeat, policyCase, pruneCase, laneCase, guardCase, compactCase>>

vars == <<lanes, run, transcript, writers, pendingBySession, steeringQueues,
          nextToolId, llmCalls, apiCalls, compactions, clock, heartbeat, policyCase,
          pruneCase, laneCase, guardCase, compactCase>>

Calls == 1..MaxRuns

(***************************************************************************)
(* Session keys.  A key string is modelled as the sequence of its          *)
(* ':'-separated parts.                                                    *)
(***************************************************************************)
DEFAULT_AGENT_ID == "main"
DEFAULT_MAIN_KEY == "main"

\* the strings callers pass to run() and steer()
RawKeys == { <<"s">>, <<"agent", "main", "t">> }

UuidOf(c) == IF c = 1 THEN "u1" ELSE IF c = 2 THEN "u2" ELSE IF c = 3 THEN "u3" ELSE "u4"

buildAgentMainSessionKey(agentId, mainKey) == <<"agent", agentId, mainKey>>

toAgentStoreSessionKey(agentId, requestKey) ==
  IF requestKey = <<>> \/ requestKey = <<DEFAULT_MAIN_KEY>>
  THEN buildAgentMainSessionKey(agentId, DEFAULT_MAIN_KEY)
  ELSE IF Len(requestKey) > 1 /\ Head(requestKey) = "agent"
       THEN requestKey
       ELSE <<"agent", agentId>> \o requestKey

resolveSessionKey(agentId, sessionIdOrKey) ==
  IF sessionIdOrKey # <<>>
  THEN toAgentStoreSessionKey(agentId, sessionIdOrKey)
  ELSE buildAgentMainSessionKey(agentId, DEFAULT_MAIN_KEY)

buildSubagentSessionKey(agentId, c) == <<"agent", agentId, "subagent", UuidOf(c)>>

parseAgentSessionKey(sessionKey) ==
  IF Len(sessionKey) < 3 \/ Head(sessionKey) # "agent"
  THEN <<>>
  ELSE SubSeq(sessionKey, 3, Len(sessionKey))

\* fault variant: the key is tested without being parsed
isSubagentSessionKeyUnparsed(sessionKey) ==
  sessionKey # <<>> /\ Head(sessionKey) = "subagent"

isSubagentSessionKey(sessionKey) ==
  LET rest == parseAgentSessionKey(sessionKey)
  IN  Len(rest) > 1 /\ Head(rest) = "subagent"

SessionKeys ==
  { resolveSessionKey(DEFAULT_AGENT_ID, k) : k \in RawKeys }
    \cup { buildSubagentSessionKey(DEFAULT_AGENT_ID, c) : c \in Calls }

\* every string that can index the steering map
KeyStrings == RawKeys \cup SessionKeys

resolveSessionLane(sessionKey) ==
  IF Head(sessionKey) = "session" THEN sessionKey ELSE <<"session">> \o sessionKey

resolveGlobalLane == <<"main">>

LaneIds == { resolveGlobalLane } \cup { resolveSessionLane(k) : k \in SessionKeys }


(***************************************************************************)
(* Messages and content blocks                                             *)
(***************************************************************************)
\* length in chars of the texts that occur in the model
TextChars(t) ==
  CASE t = "big" -> BigChars
    [] t = "hi" -> 2
    [] t = "ok" -> 2
    [] t = "stop" -> 4
    [] t = "a\nb" -> 3
    [] t = "SUMMARY" -> 7
    [] t = SkippedText -> 35
    [] t = SyntheticText -> 106
    [] t = SubagentSummaryText -> 19
    [] OTHER -> 40

TextBlock(t) == [type |-> "text", id |-> 0, name |-> "", content |-> t, chars |-> TextChars(t)]
ToolUseBlock(i, n) == [type |-> "tool_use", id |-> i, name |-> n, content |-> "", chars |-> 0]
ToolResultBlock(i, n, t) ==
  [type |-> "tool_result", id |-> i, name |-> n, content |-> t, chars |-> TextChars(t)]

\* a message whose content is a raw string
StringMessage(r, t) == [role |-> r, str |-> TRUE, text |-> t, blocks |-> <<>>]
\* a message whose content is a sequence of content blocks
BlockMessage(r, bs) == [role |-> r, str |-> FALSE, text |-> "", blocks |-> bs]

RECURSIVE SumChars(_)
SumChars(bs) == IF bs = <<>> THEN 0 ELSE Head(bs).chars + SumChars(Tail(bs))

estimateMessageChars(m) == IF m.str THEN TextChars(m.text) ELSE SumChars(m.blocks)

RECURSIVE estimateMessagesChars(_)
estimateMessagesChars(ms) ==
  IF ms = <<>> THEN 0 ELSE estimateMessageChars(Head(ms)) + estimateMessagesChars(Tail(ms))

estimateMessagesTokens(ms) ==
  (estimateMessagesChars(ms) + CHARS_PER_TOKEN_ESTIMATE - 1) \div CHARS_PER_TOKEN_ESTIMATE

SelectBlocks(bs, ty) == SelectSeq(bs, LAMBDA b : b.type = ty)

\* fault variant: the placeholder does not carry the skipped call's id
skipToolCallUnnamed(call) == ToolResultBlock(0, call.name, SkippedText)

skipToolCall(call) == ToolResultBlock(call.id, call.name, SkippedText)

(***************************************************************************)
(* Session tool-result guard.  A session store is the record               *)
(* [log, who, pending]: the transcript, who appended each entry, and the   *)
(* guard's pending map of the session (insertion ordered).                 *)
(***************************************************************************)
extractToolUsesFromAssistant(msg) ==
  IF msg.role # "assistant" \/ msg.str THEN <<>>
  ELSE SelectBlocks(msg.blocks, "tool_use")

extractToolResultIds(msg) ==
  IF msg.role # "user" \/ msg.str THEN <<>>
  ELSE [i \in 1..Len(SelectBlocks(msg.blocks, "tool_result")) |->
          SelectBlocks(msg.blocks, "tool_result")[i].id]

makeMissingToolResult(p) == ToolResultBlock(p.id, p.name, SyntheticText)

SeqRange(q) == { q[i] : i \in 1..Len(q) }

\* Map.delete for every id of ids
PendingDelete(pending, ids) == SelectSeq(pending, LAMBDA p : p.id \notin SeqRange(ids))

\* Map.set(call.id, call.name)
PendingSet(pending, call) ==
  IF \E i \in 1..Len(pending) : pending[i].id = call.id
  THEN [i \in 1..Len(pending) |->
          IF pending[i].id = call.id THEN [id |-> call.id, name |-> call.name] ELSE pending[i]]
  ELSE Append(pending, [id |-> call.id, name |-> call.name])

RECURSIVE PendingSetAll(_, _)
PendingSetAll(pending, calls) ==
  IF calls = <<>> THEN pending
  ELSE PendingSetAll(PendingSet(pending, Head(calls)), Tail(calls))

originalAppend(st, msg, w) ==
  [st EXCEPT !.log = Append(@, msg), !.who = Append(@, w)]

\* Date.now(): the value read, and the store after the reading. Every reading is
\* later than the one before it (the clock may tick between any two readings)
DateNow(st) == st.now + 1
ClockRead(st) == [st EXCEPT !.now = DateNow(st)]

\* the transcript entry's writer with the message's timestamp
Stamp(w, t) == [call |-> w.call, inLane |-> w.inLane, timestamp |-> t]

\* fault variant: the pending map is cleared but no synthetic results are written
flushPendingToolResultsLost(st, w) == [st EXCEPT !.pending = <<>>]

flushPendingToolResults(st, w) ==
  IF st.pending = <<>> THEN st
  ELSE originalAppend([ClockRead(st) EXCEPT !.pending = <<>>],
                      BlockMessage("user", [i \in 1..Len(st.pending) |->
                                               makeMissingToolResult(st.pending[i])]),
                      Stamp(w, DateNow(st)))

\* fault variant: the synthetic results are written after the incoming message
guardedAppendFlushAfter(st, msg, w) ==
  LET resultIds == extractToolResultIds(msg)
      toolCalls == extractToolUsesFromAssistant(msg)
      st1 == originalAppend(st, msg, w)
      st2 == IF st.pending # <<>> THEN flushPendingToolResults(st1, w) ELSE st1
  IN  IF resultIds # <<>>
      THEN originalAppend([st EXCEPT !.pending = PendingDelete(@, resultIds)], msg, w)
      ELSE [st2 EXCEPT !.pending = PendingSetAll(@, toolCalls)]

\* the monkey-patched sessionManager.append
guardedAppend(st, msg, w) ==
  LET resultIds == extractToolResultIds(msg)
      toolCalls == extractToolUsesFromAssistant(msg)
      st1 == IF st.pending # <<>> /\ toolCalls = <<>>
             THEN flushPendingToolResults(st, w) ELSE st
      st2 == IF st1.pending # <<>> /\ toolCalls # <<>>
             THEN flushPendingToolResults(st1, w) ELSE st1
      st3 == originalAppend(st2, msg, w)
  IN  IF resultIds # <<>>
      THEN originalAppend([st EXCEPT !.pending = PendingDelete(@, resultIds)], msg, w)
      ELSE [st3 EXCEPT !.pending = PendingSetAll(@, toolCalls)]

RECURSIVE guardedAppendAll(_, _, _)
guardedAppendAll(st, msgs, w) ==
  IF msgs = <<>> THEN st
  ELSE guardedAppendAll(guardedAppend(st, Head(msgs), w), Tail(msgs), w)

\* a message built with timestamp: Date.now() and handed to sessions.append
appendCreated(st, msg, w) == guardedAppend(ClockRead(st), msg, Stamp(w, DateNow(st)))

\* getSteeringMessages stamps the drained texts; an empty queue reads no clock
afterDrain(st, queue) == IF queue = <<>> THEN st ELSE ClockRead(st)


(***************************************************************************)
(* Tool policy (tool-policy.ts)                                            *)
(***************************************************************************)
\* strings are sequences of one-character strings
Uppers == <<"A","B","C","D","E","F","G","H","I","J","K","L","M",
            "N","O","P","Q","R","S","T","U","V","W","X","Y","Z">>
Lowers == <<"a","b","c","d","e","f","g","h","i","j","k","l","m",
            "n","o","p","q","r","s","t","u","v","w","x","y","z">>
Whitespace == { " ", "\t", "\n", "\r" }
LineTerminators == { "\n", "\r" }

toLowerCase(str) ==
  [i \in 1..Len(str) |->
     IF \E k \in 1..26 : Uppers[k] = str[i]
     THEN Lowers[CHOOSE k \in 1..26 : Uppers[k] = str[i]]
     ELSE str[i]]

RECURSIVE trimStart(_)
trimStart(str) ==
  IF str # <<>> /\ Head(str) \in Whitespace THEN trimStart(Tail(str)) ELSE str

RECURSIVE trimEnd(_)
trimEnd(str) ==
  IF str # <<>> /\ str[Len(str)] \in Whitespace
  THEN trimEnd(SubSeq(str, 1, Len(str) - 1)) ELSE str

trim(str) == trimEnd(trimStart(str))

normalizeToolName(name) ==
  LET trimmed == toLowerCase(trim(name))
  IN  IF trimmed = APPLY_DASH_PATCH THEN APPLY_PATCH
      ELSE IF trimmed = BASH THEN EXEC
      ELSE trimmed

\* normalized.replace(/[.*+?^${}()|[\]\\]/g, "\\$&")
RegexSpecials == { ".", "*", "+", "?", "^", "$", "{", "}", "(", ")", "|", "[", "]", "\\" }

RECURSIVE escapeRegExp(_)
escapeRegExp(str) ==
  IF str = <<>> THEN <<>>
  ELSE (IF Head(str) \in RegexSpecials THEN <<"\\", Head(str)>> ELSE <<Head(str)>>)
         \o escapeRegExp(Tail(str))

\* escaped.replaceAll("\\*", ".*")
RECURSIVE replaceEscapedStars(_)
replaceEscapedStars(str) ==
  IF str = <<>> THEN <<>>
  ELSE IF Len(str) >= 2 /\ str[1] = "\\" /\ str[2] = "*"
  THEN <<".", "*">> \o replaceEscapedStars(SubSeq(str, 3, Len(str)))
  ELSE <<Head(str)>> \o replaceEscapedStars(Tail(str))

\* RegExp("^" + source + "$").test(name) for the sources the compiler builds:
\* an escaped character, ".*", "." and plain characters
RECURSIVE regexTest(_, _)
regexTest(source, name) ==
  IF source = <<>> THEN name = <<>>
  ELSE IF source[1] = "\\" /\ Len(source) >= 2
  THEN /\ name # <<>>
       /\ name[1] = source[2]
       /\ regexTest(SubSeq(source, 3, Len(source)), Tail(name))
  ELSE IF source[1] = "." /\ Len(source) >= 2 /\ source[2] = "*"
  THEN \E k \in 0..Len(name) :
         /\ \A i \in 1..k : name[i] \notin LineTerminators
         /\ regexTest(SubSeq(source, 3, Len(source)), SubSeq(name, k + 1, Len(name)))
  ELSE IF source[1] = "."
  THEN /\ name # <<>>
       /\ name[1] \notin LineTerminators
       /\ regexTest(Tail(source), Tail(name))
  ELSE /\ name # <<>>
       /\ name[1] = source[1]
       /\ regexTest(Tail(source), Tail(name))

compilePattern(pattern) ==
  LET normalized == normalizeToolName(pattern)
  IN  IF normalized = <<>> THEN [kind |-> "exact", value |-> <<>>]
      ELSE IF normalized = <<"*">> THEN [kind |-> "all", value |-> <<>>]
      ELSE IF \A i \in 1..Len(normalized) : normalized[i] # "*"
      THEN [kind |-> "exact", value |-> normalized]
      ELSE [kind |-> "regex", value |-> replaceEscapedStars(escapeRegExp(normalized))]

compilePatterns(patterns) == [i \in 1..Len(patterns) |-> compilePattern(patterns[i])]

matchesAny(name, patterns) ==
  \E i \in 1..Len(patterns) :
    \/ patterns[i].kind = "all"
    \/ patterns[i].kind = "exact" /\ name = patterns[i].value
    \/ patterns[i].kind = "regex" /\ regexTest(patterns[i].value, name)

\* fault variant: the allow list is consulted before the deny list
isToolAllowedAllowFirst(name, policy) ==
  \/ policy = <<>>
  \/ matchesAny(normalizeToolName(name), compilePatterns(policy[1].allow))
  \/ /\ policy[1].allow = <<>>
     /\ ~matchesAny(normalizeToolName(name), compilePatterns(policy[1].deny))

\* policy is <<>> (no policy) or <<[allow, deny]>>
isToolAllowed(name, policy) ==
  IF policy = <<>> THEN TRUE
  ELSE LET normalized == normalizeToolName(name)
           deny == compilePatterns(policy[1].deny)
           allow == compilePatterns(policy[1].allow)
       IN  IF matchesAny(normalized, deny) THEN FALSE
           ELSE IF Len(allow) = 0 THEN TRUE
           ELSE IF matchesAny(normalized, allow) THEN TRUE
           ELSE IF normalized = APPLY_PATCH /\ matchesAny(EXEC, allow) THEN TRUE
           ELSE FALSE

(***************************************************************************)
(* Context pruning (context/pruning.ts) with the default settings, and the *)
(* compaction trigger (context/compaction.ts)                              *)
(***************************************************************************)
SoftTrimHeadChars == 1500
SoftTrimTailChars == 1500
\* "\n...\n" plus the bracketed note appended to a trimmed result, without
\* the digits of the original length
SoftTrimNoteChars == 81

RECURSIVE Digits(_)
Digits(n) == IF n < 10 THEN 1 ELSE 1 + Digits(n \div 10)

\* pattern.replace(/[.*+?^${}()|[\]\\]/g, (ch) => (ch === "*" ? ".*" : "\\" + ch))
RECURSIVE globSource(_)
globSource(pattern) ==
  IF pattern = <<>> THEN <<>>
  ELSE (IF Head(pattern) = "*" THEN <<".", "*">>
        ELSE IF Head(pattern) \in RegexSpecials THEN <<"\\", Head(pattern)>>
        ELSE <<Head(pattern)>>)
         \o globSource(Tail(pattern))

matchGlob(value, pattern) ==
  IF pattern = <<"*">> THEN TRUE
  ELSE IF \A i \in 1..Len(pattern) : pattern[i] # "*" THEN value = pattern
  ELSE regexTest(globSource(pattern), value)

\* DEFAULT_CONTEXT_PRUNING_SETTINGS.tools: rules without allow or deny
DefaultPruningTools == <<[allow |-> <<>>, deny |-> <<>>]>>

\* the predicate makeToolPrunablePredicate(match) builds, applied to toolName;
\* match is <<>> (no rules) or <<[allow, deny]>>
makeToolPrunablePredicate(match, toolName) ==
  IF match = <<>> THEN TRUE
  ELSE LET normalized == toLowerCase(trim(toolName))
           deny == match[1].deny
           allow == match[1].allow
       IN  IF \E i \in 1..Len(deny) : matchGlob(normalized, toLowerCase(deny[i]))
           THEN FALSE
           ELSE IF Len(allow) = 0 THEN TRUE
           ELSE \E i \in 1..Len(allow) : matchGlob(normalized, toLowerCase(allow[i]))

\* the decimal digits of a number, as a string
RECURSIVE Decimal(_)
Decimal(n) ==
  (IF n < 10 THEN <<>> ELSE Decimal(n \div 10))
    \o <<(<<"0", "1", "2", "3", "4", "5", "6", "7", "8", "9">>)[(n % 10) + 1]>>

\* block.tool_use_id: the id string the provider gave the call (never a tool name)
ToolUseIdString(id) == <<"t", "o", "o", "l", "u", "_">> \o Decimal(id)

\* the layers' test on a tool_result block: the predicate is handed the
\* block's tool_use_id; a block without one counts as prunable
canPrune(b, tools) ==
  b.id = 0 \/ makeToolPrunablePredicate(tools, ToolUseIdString(b.id))

\* fault variant: half of the content is kept, however long that is
softTrimToolResultBlockByHalf(b, tools) ==
  IF b.type # "tool_result" \/ b.chars <= SoftTrimMaxChars THEN b
  ELSE [b EXCEPT !.content = "trimmed", !.chars = b.chars \div 2 + SoftTrimNoteChars]

softTrimToolResultBlock(b, tools) ==
  IF b.type # "tool_result" THEN b
  ELSE IF ~canPrune(b, tools) THEN b
  ELSE IF b.chars <= SoftTrimMaxChars THEN b
  ELSE IF SoftTrimHeadChars + SoftTrimTailChars >= b.chars THEN b
  ELSE [b EXCEPT !.content = "trimmed",
                 !.chars = SoftTrimHeadChars + SoftTrimTailChars + SoftTrimNoteChars
                             + Digits(b.chars)]

applySoftTrim(ms, tools) ==
  [i \in 1..Len(ms) |->
     IF ms[i].str THEN ms[i]
     ELSE [ms[i] EXCEPT !.blocks = [j \in 1..Len(ms[i].blocks) |->
                                       softTrimToolResultBlock(ms[i].blocks[j], tools)]]]

RECURSIVE countPrunableToolChars(_, _)
countPrunableToolChars(ms, tools) ==
  IF ms = <<>> THEN 0
  ELSE (IF Head(ms).str THEN 0
        ELSE SumChars(SelectSeq(Head(ms).blocks,
                                LAMBDA b : b.type = "tool_result" /\ canPrune(b, tools))))
       + countPrunableToolChars(Tail(ms), tools)

\* one message's blocks under hard clear; total is the running totalChars
RECURSIVE hardClearBlocks(_, _, _, _)
hardClearBlocks(bs, total, charWindow, tools) ==
  IF bs = <<>> THEN [blocks |-> <<>>, total |-> total]
  ELSE LET b == Head(bs)
           clear == /\ b.type = "tool_result"
                    /\ b.chars > 0
                    /\ canPrune(b, tools)
                    /\ ~(2 * total < charWindow)
           b1 == IF clear
                 THEN [b EXCEPT !.content = "[Old tool result content cleared]",
                                !.chars = HardClearPlaceholderChars]
                 ELSE b
           t1 == IF clear THEN total - (b.chars - HardClearPlaceholderChars) ELSE total
           rest == hardClearBlocks(Tail(bs), t1, charWindow, tools)
       IN  [blocks |-> <<b1>> \o rest.blocks, total |-> rest.total]

RECURSIVE hardClearMessages(_, _, _, _)
hardClearMessages(ms, total, charWindow, tools) ==
  IF ms = <<>> THEN <<>>
  ELSE IF Head(ms).str
       THEN <<Head(ms)>> \o hardClearMessages(Tail(ms), total, charWindow, tools)
       ELSE LET r == hardClearBlocks(Head(ms).blocks, total, charWindow, tools)
            IN  <<[Head(ms) EXCEPT !.blocks = r.blocks]>>
                  \o hardClearMessages(Tail(ms), r.total, charWindow, tools)

applyHardClear(ms, charWindow, tools) ==
  IF 2 * estimateMessagesChars(ms) < charWindow THEN ms
  ELSE IF countPrunableToolChars(ms, tools) < MinPrunableToolChars THEN ms
  ELSE hardClearMessages(ms, estimateMessagesChars(ms), charWindow, tools)

\* index (1-based) of the keepLastAssistants-th assistant message from the end, 0 if none
RECURSIVE findAssistantCutoffIndex(_, _, _)
findAssistantCutoffIndex(ms, i, remaining) ==
  IF i = 0 THEN 0
  ELSE IF ms[i].role # "assistant" THEN findAssistantCutoffIndex(ms, i - 1, remaining)
  ELSE IF remaining = 1 THEN i
  ELSE findAssistantCutoffIndex(ms, i - 1, remaining - 1)

\* fault variant: a message that does not fit is passed over and the fill goes on
RECURSIVE sliceWithinBudgetSkipping(_, _, _, _, _)
sliceWithinBudgetSkipping(ms, i, used, kept, budgetChars) ==
  IF i = 0 THEN kept
  ELSE IF used + estimateMessageChars(ms[i]) > budgetChars /\ kept # <<>>
  THEN sliceWithinBudgetSkipping(ms, i - 1, used, kept, budgetChars)
  ELSE sliceWithinBudgetSkipping(ms, i - 1, used + estimateMessageChars(ms[i]),
                                 <<i>> \o kept, budgetChars)

\* sliceWithinBudget: fill the budget from the end backwards; kept holds the
\* positions of the kept messages in their final (reversed) order
RECURSIVE sliceWithinBudget(_, _, _, _, _)
sliceWithinBudget(ms, i, used, kept, budgetChars) ==
  IF i = 0 THEN kept
  ELSE IF used + estimateMessageChars(ms[i]) > budgetChars /\ kept # <<>> THEN kept
  ELSE sliceWithinBudget(ms, i - 1, used + estimateMessageChars(ms[i]), <<i>> \o kept,
                         budgetChars)

\* fault variant: every message before the protected suffix is kept
RECURSIVE fillBackwardAll(_, _, _, _)
fillBackwardAll(ms, i, remaining, kept) ==
  IF i = 0 THEN kept ELSE fillBackwardAll(ms, i - 1, remaining, <<i>> \o kept)

\* fault variant: nothing before the protected suffix is kept
fillBackwardNone(ms, i, remaining, kept) == kept

\* the loop that unshifts the messages before the protected suffix while they fit
RECURSIVE fillBackward(_, _, _, _)
fillBackward(ms, i, remaining, kept) ==
  IF i = 0 THEN kept
  ELSE IF estimateMessageChars(ms[i]) > remaining THEN kept
  ELSE fillBackward(ms, i - 1, remaining - estimateMessageChars(ms[i]), <<i>> \o kept)

\* current.filter((msg) => !keptSet.has(msg)) over positions: messages are
\* distinct objects
droppedPositions(n, kept) ==
  SelectSeq([k \in 1..n |-> k], LAMBDA k : \A q \in 1..Len(kept) : kept[q] # k)

\* the PruneResult for the kept positions
keptAndDropped(current, kept, budgetChars) ==
  LET dropped == droppedPositions(Len(current), kept)
  IN  [messages |-> [q \in 1..Len(kept) |-> current[kept[q]]],
       droppedMessages |-> [q \in 1..Len(dropped) |-> current[dropped[q]]],
       budgetChars |-> budgetChars]

\* the kept positions: the protected suffix cut to the budget when it is larger
\* than the budget, else the suffix and what still fits before it
keptPositions(current, protectedIndex, budgetChars) ==
  LET n == Len(current)
      protectedChars == estimateMessagesChars(SubSeq(current, protectedIndex, n))
  IN  IF protectedChars > budgetChars
      THEN sliceWithinBudget(current, n, 0, <<>>, budgetChars)
      ELSE fillBackward(current, protectedIndex - 1, budgetChars - protectedChars,
                        [k \in 1..(n - protectedIndex + 1) |-> protectedIndex + k - 1])

\* layer 3: drop the oldest messages when the history is still over the budget
dropOldMessages(current, budgetChars) ==
  IF estimateMessagesChars(current) <= budgetChars
  THEN [messages |-> current, droppedMessages |-> <<>>, budgetChars |-> budgetChars]
  ELSE LET cutoffIndex == findAssistantCutoffIndex(current, Len(current), KeepLastAssistants)
       IN  keptAndDropped(current,
                          keptPositions(current, IF cutoffIndex = 0 THEN 1 ELSE cutoffIndex,
                                        budgetChars),
                          budgetChars)

\* layer 2 and what follows it
hardClearThenDrop(afterSoft, charWindow, budgetChars, tools) ==
  dropOldMessages(IF 2 * estimateMessagesChars(afterSoft) > charWindow
                  THEN applyHardClear(afterSoft, charWindow, tools) ELSE afterSoft,
                  budgetChars)

\* tools is settings.tools of the resolved settings
pruneContextMessages(messages, contextWindowTokens, tools) ==
  LET charWindow == contextWindowTokens * CHARS_PER_TOKEN_ESTIMATE
      budgetChars == IF charWindow \div 2 < 1 THEN 1 ELSE charWindow \div 2
  IN  hardClearThenDrop(IF 10 * estimateMessagesChars(messages) > 3 * charWindow
                        THEN applySoftTrim(messages, tools) ELSE messages,
                        charWindow, budgetChars, tools)

shouldTriggerCompaction(messages, contextWindowTokens) ==
  estimateMessagesTokens(messages) > contextWindowTokens - ReserveTokens

createCompactionSummaryMessage(summary) == StringMessage("user", summary)

\* SessionManager.appendCompaction: one more compaction record in the session log
appendCompaction(records, summary, firstKeptEntryId, tokensBefore) ==
  Append(records, [summary |-> summary, firstKeptEntryId |-> firstKeptEntryId,
                   tokensBefore |-> tokensBefore])

\* SessionManager.resolveMessageEntryId over the kept messages: the entry of the
\* first kept message (the kept messages are the tail of what was loaded and appended)
resolveFirstKeptEntryId(messages, kept) ==
  IF kept = <<>> THEN 0 ELSE Len(messages) - Len(kept) + 1

\* <<>> when no summary is produced, else <<summaryMessage>>
compactHistoryIfNeeded(messages, contextWindowTokens) ==
  IF \/ ~shouldTriggerCompaction(messages, contextWindowTokens)
     \/ pruneContextMessages(messages, contextWindowTokens,
                             DefaultPruningTools).droppedMessages = <<>>
  THEN <<>>
  ELSE <<createCompactionSummaryMessage("SUMMARY")>>


(***************************************************************************)
(* Event stream (agent-events.ts)                                          *)
(***************************************************************************)
Ev(t, n) == [type |-> t, n |-> n, text |-> ""]
EvText(t, x) == [type |-> t, n |-> 0, text |-> x]

isComplete(event) == event.type = "agent_end" \/ event.type = "agent_error"

\* the result the stream extracts from its terminal event
extractResult(event) == [finalText |-> "", turns |-> 0, totalToolCalls |-> 0]

\* stream.push: the first terminal event closes the stream and fixes result()
streamPush(r, event) ==
  IF r.streamResult # <<>> THEN r
  ELSE [r EXCEPT !.events = Append(@, event),
                 !.streamResult = IF isComplete(event) THEN <<extractResult(event)>> ELSE @]

\* stream.end(result): supplies result() only if no terminal event has fixed it
streamEnd(r, result) ==
  IF r.streamResult # <<>> THEN r ELSE [r EXCEPT !.streamResult = <<result>>]

RECURSIVE streamPushAll(_, _)
streamPushAll(r, evs) ==
  IF evs = <<>> THEN r ELSE streamPushAll(streamPush(r, Head(evs)), Tail(evs))

(***************************************************************************)
(* Lane scheduler (command-queue.ts).  S is the record [lanes, run]; a     *)
(* queue entry names the run() invocation and which of its two nested      *)
(* tasks it stands for.                                                    *)
(***************************************************************************)
NoResult == [status |-> "none", text |-> "", turns |-> 0, toolCalls |-> 0]

IdleRun ==
  [pc |-> "idle", raw |-> <<>>, key |-> <<>>, text |-> "", parent |-> <<>>,
   aborted |-> FALSE, turns |-> 0, totalToolCalls |-> 0, finalText |-> "",
   overflowCompactionAttempted |-> FALSE, pendingMessages |-> <<>>,
   hasMoreToolCalls |-> FALSE, compactionSummary |-> <<>>, currentMessages |-> <<>>,
   toolCalls |-> <<>>, toolIdx |-> 0, toolResults |-> <<>>, startedAborted |-> FALSE,
   attempt |-> 0, streamResult |-> <<>>, loopError |-> "", events |-> <<>>,
   result |-> NoResult, callbackDone |-> FALSE,
   \* history: abort() arrived before the loop had ended, the text steer() queued
   \* while the first call of a batch was executing, the last LLM attempt's failure
   abortedInLoop |-> FALSE, steeredFirstTool |-> <<>>, lastFailure |-> "",
   \* history: LLM streaming calls made in the turn being counted, and whether
   \* the turn at hand is the retry of a turn after overflow compaction
   turnCalls |-> 0, turnRetried |-> FALSE,
   \* the timestamp the drained steering messages in pendingMessages carry
   pendingStamp |-> 0,
   \* history: <<the error text>> of the LLM failure that ended the loop, if one did
   llmError |-> <<>>,
   \* history: abort() arrived while retryAsync slept before the attempt at hand
   abortedInSleep |-> FALSE]

\* fault variant: a new lane admits two tasks at once
getLaneStateWide == [active |-> 0, queue |-> <<>>, maxConcurrent |-> 2]

getLaneState == [active |-> 0, queue |-> <<>>, maxConcurrent |-> 1]

\* Agent.run, lines 554-571: the synchronous head of the inner task
runBegin(S, c) ==
  [S EXCEPT !.run[c].pc = "setup",
            !.run[c].events = Append(@, Ev("agent_start", 0))]

RECURSIVE drainLane(_, _)
RECURSIVE startTask(_, _)
RECURSIVE enqueueInLane(_, _, _)

\* fault variant: the entry enqueued last is started first
RECURSIVE drainLaneLifo(_, _)
drainLaneLifo(S, lane) ==
  LET state == S.lanes[lane]
      entry == state.queue[Len(state.queue)]
      S1 == [S EXCEPT !.lanes[lane].queue = SubSeq(@, 1, Len(@) - 1),
                      !.lanes[lane].active = @ + 1]
  IN  IF state.active < state.maxConcurrent /\ Len(state.queue) > 0
      THEN drainLaneLifo(startTask(S1, entry), lane)
      ELSE S

drainLane(S, lane) ==
  LET state == S.lanes[lane]
      entry == Head(state.queue)
      S1 == [S EXCEPT !.lanes[lane].queue = Tail(@),
                      !.lanes[lane].active = @ + 1]
  IN  IF state.active < state.maxConcurrent /\ Len(state.queue) > 0
      THEN drainLane(startTask(S1, entry), lane)
      ELSE S

\* entry.task(): the session-lane task enqueues the run on the global lane,
\* the global-lane task is the run itself
startTask(S, entry) ==
  IF entry.layer = "session"
  THEN enqueueInLane([S EXCEPT !.run[entry.call].pc = "globalQueue"],
                     resolveGlobalLane, [call |-> entry.call, layer |-> "global"])
  ELSE runBegin(S, entry.call)

enqueueInLane(S, lane, entry) ==
  drainLane([S EXCEPT !.lanes[lane].queue = Append(@, entry)], lane)

\* fault variant: the lane is not drained again when a task settles
laneTaskSettledNoDrain(S, lane) == [S EXCEPT !.lanes[lane].active = @ - 1]

\* the settle branch of drainLane's task wrapper: active -= 1; drainLane(lane)
laneTaskSettled(S, lane) ==
  drainLane([S EXCEPT !.lanes[lane].active = @ - 1], lane)

setLaneConcurrency(S, lane, maxConcurrent) ==
  drainLane([S EXCEPT !.lanes[lane].maxConcurrent =
                        IF maxConcurrent < 1 THEN 1 ELSE maxConcurrent], lane)

\* fault variant: the run is enqueued on the global lane at once
agentRunUnnested(S, c, raw, text, parent) ==
  enqueueInLane([S EXCEPT !.run[c] = [IdleRun EXCEPT !.pc = "globalQueue", !.raw = raw,
                                                     !.key = resolveSessionKey(DEFAULT_AGENT_ID, raw),
                                                     !.text = text, !.parent = parent]],
                resolveGlobalLane, [call |-> c, layer |-> "global"])

\* Agent.run up to the nested enqueueInLane calls
agentRun(S, c, raw, text, parent) ==
  LET sessionKey == resolveSessionKey(DEFAULT_AGENT_ID, raw)
  IN  enqueueInLane([S EXCEPT !.run[c] = [IdleRun EXCEPT !.pc = "sessionQueue", !.raw = raw,
                                                         !.key = sessionKey, !.text = text,
                                                         !.parent = parent]],
                    resolveSessionLane(sessionKey), [call |-> c, layer |-> "session"])


(***************************************************************************)
(* Inputs of the environment: what the provider and the tools do           *)
(***************************************************************************)
UserTexts == { "hi" }
SteerTexts == { "big" }
ToolNames == { "list", "sessions_spawn" }
ToolBatches ==
  { [i \in 1..n |-> "list"] : n \in 1..MaxTools } \cup { <<"sessions_spawn">> }

\* a provider failure is classified by its text: <<rate limit, context overflow>>
ErrorKinds == { <<FALSE, FALSE>>, <<TRUE, FALSE>>, <<FALSE, TRUE>> }

LLMOutcomes ==
  { [kind |-> "text", names |-> <<>>, rate |-> FALSE, overflow |-> FALSE, message |-> ""] }
    \cup { [kind |-> "tools", names |-> ns, rate |-> FALSE, overflow |-> FALSE,
             message |-> ""] : ns \in ToolBatches }
    \cup { [kind |-> "error", names |-> <<>>, rate |-> e[1], overflow |-> e[2],
             message |-> "boom"] : e \in ErrorKinds }
    \* an Error thrown without a message
    \cup { [kind |-> "error", names |-> <<>>, rate |-> FALSE, overflow |-> FALSE,
             message |-> ""] }

\* what tool.execute does: resolve with a string, throw, or resolve with no value
ToolOutcomes == { "ok", "throw", "novalue" }

\* describeError of the provider failure
errorText(out) ==
  IF out.rate /\ out.overflow THEN "429 prompt is too long"
  ELSE IF out.rate THEN "rate_limit"
  ELSE IF out.overflow THEN "context overflow"
  ELSE out.message

isRateLimitError(t) == t \in { "429 prompt is too long", "rate_limit" }
isContextOverflowError(t) == t \in { "429 prompt is too long", "context overflow" }

(***************************************************************************)
(* Session store access                                                    *)
(***************************************************************************)
Store(s) ==
  [log |-> transcript[s], who |-> writers[s], pending |-> pendingBySession[s],
   now |-> clock[s]]

SetStore(s, st) ==
  /\ transcript' = [transcript EXCEPT ![s] = st.log]
  /\ writers' = [writers EXCEPT ![s] = st.who]
  /\ pendingBySession' = [pendingBySession EXCEPT ![s] = st.pending]
  /\ clock' = [clock EXCEPT ![s] = st.now]

StoreUnchanged == UNCHANGED <<transcript, writers, pendingBySession, clock>>

RunningPcs == { "setup", "top", "llm", "tool", "ended" }
LanePcs == RunningPcs \cup { "globalQueue", "finished" }

\* c is the task that occupies the session lane of s
HoldsSessionLane(c, s) == run[c].key = s /\ run[c].pc \in LanePcs

Writer(c, s) == [call |-> c, inLane |-> HoldsSessionLane(c, s)]

\* getSteeringMessages of Agent.run: queue.splice(0) mapped to user messages
getSteeringMessages(queue) == [i \in 1..Len(queue) |-> StringMessage("user", queue[i])]

(***************************************************************************)
(* Heartbeat (heartbeat.ts)                                                *)
(***************************************************************************)
\* after new HeartbeatManager(workspaceDir, config): the wake layer's five
\* fields with the handler set, the manager's fields, the timeouts the event
\* loop holds for each layer, and the runOnce executions in flight
HeartbeatIdle ==
  [handler |-> TRUE, pendingReason |-> "", scheduled |-> FALSE, running |-> FALSE,
   timer |-> FALSE, wakeTimeouts |-> 0,
   started |-> FALSE, callback |-> FALSE, stateTimer |-> FALSE, intervalTimeouts |-> 0,
   enabled |-> TRUE, executions |-> <<>>, calls |-> 0,
   \* history: request() calls no handler invocation has taken up yet, the
   \* number of them the last invocation took up, the last step taken, the
   \* result of the last runOnce, whether stop() was the last of the calls
   \* start(), stop(), requestNow() and trigger()
   \* whether a request() was made during an execution of the wake layer and no
   \* invocation has followed yet, and whether the last invocation followed one
   unserved |-> 0, served |-> 0, last |-> "new", lastResult |-> <<>>, quiet |-> FALSE,
   buffered |-> FALSE, servedBuffered |-> FALSE]

WakeReasons == { "requested", "exec" }

\* fault variant: a timeout is armed even if one is pending
scheduleAlways(h) == [h EXCEPT !.timer = TRUE, !.wakeTimeouts = @ + 1]

\* HeartbeatWake.schedule: arm the timeout unless one is pending
schedule(h) ==
  IF h.timer THEN h ELSE [h EXCEPT !.timer = TRUE, !.wakeTimeouts = @ + 1]

\* HeartbeatWake.request
request(h, reason) ==
  schedule([h EXCEPT !.pendingReason = reason, !.unserved = @ + 1,
                     !.buffered = @ \/ h.running])

\* fault variant: a firing during an execution takes the request and does not rearm
wakeWhileRunningDrops(h) == [h EXCEPT !.pendingReason = ""]

\* the wake timer callback while an execution is running
wakeWhileRunning(h) == schedule([h EXCEPT !.scheduled = TRUE])

\* HeartbeatManager.scheduleNext: one more interval timeout; the handle of an
\* earlier one is overwritten, not cleared
scheduleNext(h) ==
  IF ~h.started THEN h
  ELSE [h EXCEPT !.stateTimer = TRUE, !.intervalTimeouts = @ + 1]

\* the continuation of the wake timer callback after `await active(...)`
wakeAfterHandler(h, reason, res) ==
  LET h1 == IF res = <<"skipped", "requests-in-flight">>
            THEN schedule([h EXCEPT !.pendingReason =
                                      IF reason = "" THEN "retry" ELSE reason])
            ELSE h
      h2 == [h1 EXCEPT !.running = FALSE]
  IN  IF h2.pendingReason # "" \/ h2.scheduled THEN schedule(h2) ELSE h2

\* a runOnce execution returns res: the state update and scheduleNext that
\* precede every return, then the caller's continuation
runOnceReturn(h, e, res) ==
  LET h1 == scheduleNext([h EXCEPT !.lastResult = res])
  IN  IF e.via = "wake" THEN wakeAfterHandler(h1, e.reason, res) ELSE h1

RemoveAt(q, i) == SubSeq(q, 1, i - 1) \o SubSeq(q, i + 1, Len(q))

\* runOnce up to its first await: the active-hours check
runOnce(h, via, reason, withinActiveHours) ==
  LET e == [via |-> via, reason |-> reason,
            wakeReason |-> IF reason = "" THEN "requested" ELSE reason,
            stage |-> "read"]
  IN  IF ~withinActiveHours
      THEN runOnceReturn(h, e, <<"skipped", "outside-active-hours">>)
      ELSE [h EXCEPT !.executions = Append(@, e)]

HeartbeatFrame == UNCHANGED <<agentVars, policyCase, pruneCase, laneCase, guardCase, compactCase>>

\* heartbeat.onHeartbeat(callback)
OnHeartbeat ==
  /\ heartbeat.calls < MaxHeartbeatCalls
  /\ ~heartbeat.callback
  /\ heartbeat' = [heartbeat EXCEPT !.callback = TRUE, !.calls = @ + 1,
                                    !.last = "onHeartbeat"]
  /\ HeartbeatFrame

\* heartbeat.start()
HeartbeatStart ==
  /\ heartbeat.calls < MaxHeartbeatCalls
  /\ heartbeat.enabled
  /\ ~heartbeat.started
  /\ heartbeat' = [scheduleNext([heartbeat EXCEPT !.started = TRUE])
                     EXCEPT !.calls = @ + 1, !.last = "start", !.quiet = FALSE]
  /\ HeartbeatFrame

\* HeartbeatManager.stop: wake.stop() and the interval timeout of the current handle
stop(h) ==
  [h EXCEPT !.started = FALSE,
            !.wakeTimeouts = IF h.timer THEN @ - 1 ELSE @,
            !.timer = FALSE,
            !.scheduled = FALSE,
            !.pendingReason = "",
            !.unserved = 0,
            !.intervalTimeouts = IF h.stateTimer THEN @ - 1 ELSE @,
            !.stateTimer = FALSE,
            !.quiet = TRUE,
            !.buffered = FALSE]

\* heartbeat.stop()
HeartbeatStop ==
  /\ heartbeat.calls < MaxHeartbeatCalls
  /\ heartbeat' = [stop(heartbeat) EXCEPT !.calls = @ + 1, !.last = "stop"]
  /\ HeartbeatFrame

\* heartbeat.requestNow(reason)
RequestNow(reason) ==
  /\ heartbeat.calls < MaxHeartbeatCalls
  /\ heartbeat' = [request(heartbeat, reason) EXCEPT !.calls = @ + 1, !.last = "request",
                                                      !.quiet = FALSE]
  /\ HeartbeatFrame

\* heartbeat.trigger(): runOnce("requested") called directly
Trigger(withinActiveHours) ==
  /\ heartbeat.calls < MaxHeartbeatCalls
  /\ heartbeat' = [runOnce(heartbeat, "trigger", "requested", withinActiveHours)
                     EXCEPT !.calls = @ + 1, !.last = "trigger", !.quiet = FALSE]
  /\ HeartbeatFrame

\* the `enabled` member of the config handed to updateConfig
EnabledUpdates == { "unset", "true", "false" }

\* HeartbeatManager.updateConfig: the enabled switch, then the reschedule
updateConfig(h, enabled) ==
  LET hc == [h EXCEPT !.enabled = IF enabled = "unset" THEN @ ELSE enabled = "true"]
      h1 == IF enabled = "false" THEN stop(hc)
            ELSE IF enabled = "true" /\ hc.started THEN scheduleNext(hc)
            ELSE hc
  IN  IF h1.started /\ h1.enabled
      THEN scheduleNext([h1 EXCEPT !.intervalTimeouts = IF h1.stateTimer THEN @ - 1 ELSE @])
      ELSE h1

\* heartbeat.updateConfig(config)
UpdateConfig(enabled) ==
  /\ heartbeat.calls < MaxHeartbeatCalls
  /\ heartbeat' = [updateConfig(heartbeat, enabled)
                     EXCEPT !.calls = @ + 1, !.last = "updateConfig"]
  /\ HeartbeatFrame

\* an interval timeout of scheduleNext fires
IntervalTimerFires ==
  /\ heartbeat.intervalTimeouts > 0
  /\ heartbeat' = [request([heartbeat EXCEPT !.intervalTimeouts = @ - 1,
                                             !.stateTimer = FALSE], "interval")
                     EXCEPT !.last = "interval"]
  /\ HeartbeatFrame

\* a timeout of HeartbeatWake.schedule fires
WakeTimerFires(withinActiveHours) ==
  /\ heartbeat.wakeTimeouts > 0
  /\ LET h == [heartbeat EXCEPT !.wakeTimeouts = @ - 1, !.timer = FALSE,
                                !.scheduled = FALSE]
     IN  heartbeat' =
           IF ~h.handler THEN [h EXCEPT !.last = "fireNoHandler"]
           ELSE IF h.running
           THEN [wakeWhileRunning(h) EXCEPT !.last = "fireBusy"]
           ELSE [runOnce([h EXCEPT !.pendingReason = "", !.running = TRUE,
                                   !.unserved = 0, !.served = h.unserved,
                                   !.buffered = FALSE, !.servedBuffered = h.buffered],
                         "wake", h.pendingReason, withinActiveHours)
                   EXCEPT !.last = "fireInvoke"]
  /\ HeartbeatFrame

\* readContent() of execution i resolves: the empty-content and no-callback skips
RunOnceRead(i, empty) ==
  /\ i \in 1..Len(heartbeat.executions)
  /\ heartbeat.executions[i].stage = "read"
  /\ LET e == heartbeat.executions[i]
         h == [heartbeat EXCEPT !.executions = RemoveAt(@, i), !.last = "read"]
     IN  heartbeat' =
           IF empty /\ e.wakeReason # "exec"
           THEN runOnceReturn(h, e, <<"skipped", "empty-content">>)
           ELSE IF ~heartbeat.callback
           THEN runOnceReturn(h, e, <<"skipped", "no-callback">>)
           ELSE [heartbeat EXCEPT !.executions[i].stage = "callback", !.last = "read"]
  /\ HeartbeatFrame

CallbackReplies == { "none", "text", "duplicate", "throw" }

\* the callback of execution i settles
RunOnceCallback(i, reply) ==
  /\ i \in 1..Len(heartbeat.executions)
  /\ heartbeat.executions[i].stage = "callback"
  /\ LET e == heartbeat.executions[i]
         h == [heartbeat EXCEPT !.executions = RemoveAt(@, i), !.last = "callback"]
     IN  heartbeat' =
           runOnceReturn(h, e,
             CASE reply = "none" -> <<"ran", "ack">>
               [] reply = "duplicate" -> <<"skipped", "duplicate-message">>
               [] reply = "throw" -> <<"failed", "callback-error">>
               [] OTHER -> <<"ran", "">>)
  /\ HeartbeatFrame

NextHeartbeat ==
  \/ OnHeartbeat
  \/ HeartbeatStart
  \/ HeartbeatStop
  \/ \E reason \in WakeReasons : RequestNow(reason)
  \/ \E within \in BOOLEAN : Trigger(within)
  \/ \E enabled \in EnabledUpdates : UpdateConfig(enabled)
  \/ IntervalTimerFires
  \/ \E within \in BOOLEAN : WakeTimerFires(within)
  \/ \E i \in 1..MaxHeartbeatCalls, empty \in BOOLEAN : RunOnceRead(i, empty)
  \/ \E i \in 1..MaxHeartbeatCalls, reply \in CallbackReplies : RunOnceCallback(i, reply)

(***************************************************************************)
(* Tool policy on its own: the names, patterns and policies it is given    *)
(***************************************************************************)
\* tool names and patterns handed to the policy
ToolNameInputs ==
  { EXEC, BASH, APPLY_PATCH, APPLY_DASH_PATCH, <<"E", "x", "e", "c">>, <<" ", "r", "e", "a", "d">>, <<"r", "e", "a", "d">>, <<"a", "\n", "b">>, <<>> }

PatternInputs ==
  { EXEC, <<"*">>, <<"e", "x", "*">>, <<"*", "c">>, <<"e", "*", "c">>, <<"b", "*">>, <<"R", "e", "a", "d">>, <<"a", "*", "b">>, <<"r", ".", "*">>, <<"a", "p", "p", "l", "y", "*">>, <<>> }

PatternLists ==
  UNION { [1..n -> PatternInputs] : n \in 0..MaxPatterns }

PolicyInputs ==
  { <<>> } \cup { <<[allow |-> a, deny |-> d]>> : a \in PatternLists, d \in PatternLists }

NoPolicyCase == [name |-> <<>>, policy |-> <<>>, evaluated |-> FALSE, allowed |-> FALSE]

\* a caller asks isToolAllowed(name, policy)
CheckTool ==
  /\ ~policyCase.evaluated
  /\ policyCase' = [policyCase EXCEPT
                      !.evaluated = TRUE,
                      !.allowed = isToolAllowed(policyCase.name, policyCase.policy)]
  /\ UNCHANGED <<agentVars, heartbeat, pruneCase, laneCase, guardCase, compactCase>>

NextPolicy == CheckTool

(***************************************************************************)
(* Pruner evaluations                                                      *)
(***************************************************************************)
\* a block of the given type whose content is chars characters long
SizedBlock(ty, chars) ==
  [type |-> ty, id |-> IF ty = "tool_result" THEN 1 ELSE 0,
   name |-> IF ty = "tool_result" THEN "list" ELSE "", content |-> "data", chars |-> chars]

\* the kinds of message a history is drawn from: short texts, a text larger than
\* the small budget, tool results above and below the soft-trim limit and
\* shorter than the hard-clear placeholder, and a message of many tool results
PruneMessageKinds ==
  { StringMessage("user", "hi"),
    BlockMessage("user", <<SizedBlock("text", 100)>>),
    BlockMessage("assistant", <<SizedBlock("text", 100)>>),
    BlockMessage("assistant", <<SizedBlock("text", 3000)>>),
    BlockMessage("user", <<SizedBlock("tool_result", 20000)>>),
    BlockMessage("user", <<SizedBlock("tool_result", 20)>>),
    BlockMessage("user", [k \in 1..13 |-> SizedBlock("tool_result", 4000)]) }

\* contextWindowTokens handed to the pruner
PruneWindows == { SmallWindowTokens, LargeWindowTokens }

\* messages carry the time of their creation, increasing along the history
Timestamped(ms) == [i \in 1..Len(ms) |-> [timestamp |-> i] @@ ms[i]]

PruneHistories ==
  { Timestamped(ms) : ms \in UNION { [1..n -> PruneMessageKinds] : n \in 0..MaxPruneLen } }

NoPruneResult == [messages |-> <<>>, droppedMessages |-> <<>>, budgetChars |-> 0]

NoPruneCase ==
  [messages |-> <<>>, contextWindowTokens |-> 0, tools |-> DefaultPruningTools,
   stage |-> "none", first |-> NoPruneResult, second |-> NoPruneResult]

PruneFrame == UNCHANGED <<agentVars, heartbeat, policyCase, laneCase, guardCase, compactCase>>

\* pruneContextMessages({messages, contextWindowTokens, settings})
Prune ==
  /\ pruneCase.stage = "input"
  /\ pruneCase' = [pruneCase EXCEPT
                     !.stage = "pruned",
                     !.first = pruneContextMessages(pruneCase.messages,
                                                    pruneCase.contextWindowTokens,
                                                    pruneCase.tools)]
  /\ PruneFrame

\* the kept messages are pruned again with the same window and settings
PruneAgain ==
  /\ pruneCase.stage = "pruned"
  /\ pruneCase' = [pruneCase EXCEPT
                     !.stage = "repruned",
                     !.second = pruneContextMessages(pruneCase.first.messages,
                                                     pruneCase.contextWindowTokens,
                                                     pruneCase.tools)]
  /\ PruneFrame

NextPrune == Prune \/ PruneAgain

\* histories of named tools' results for the pruner with tool rules: results
\* above the soft-trim limit and above the hard-clear minimum
LIST == <<"l", "i", "s", "t">>

NamedResult(id, name, chars) ==
  [type |-> "tool_result", id |-> id, name |-> name, content |-> "data", chars |-> chars]

PruneToolMessages ==
  { StringMessage("user", "hi"),
    BlockMessage("user", <<NamedResult(1, EXEC, 20000)>>),
    BlockMessage("user", <<NamedResult(2, LIST, 20000)>>),
    BlockMessage("user", <<NamedResult(1, EXEC, 60000)>>),
    BlockMessage("user", <<NamedResult(2, LIST, 60000), NamedResult(1, EXEC, 5000)>>) }

PruneToolHistories ==
  { Timestamped(ms) : ms \in UNION { [1..n -> PruneToolMessages] : n \in 1..MaxPruneToolsLen } }

\* text messages: short ones, one that fills most of the small budget, and an
\* assistant text larger than the small budget
PruneTextMessages ==
  { StringMessage("user", "hi"),
    BlockMessage("user", <<SizedBlock("text", 1200)>>),
    BlockMessage("assistant", <<SizedBlock("text", 100)>>),
    BlockMessage("assistant", <<SizedBlock("text", 3000)>>) }

PruneTextHistories ==
  { Timestamped(ms) : ms \in UNION { [1..n -> PruneTextMessages] : n \in 0..MaxPruneTextLen } }

\* settings.tools handed to the pruner
PruneToolRules ==
  { DefaultPruningTools,
    <<[allow |-> <<>>, deny |-> <<EXEC>>]>>,
    <<[allow |-> <<EXEC>>, deny |-> <<>>]>>,
    <<[allow |-> <<<<"l", "*">>>>, deny |-> <<>>]>>,
    <<[allow |-> <<LIST>>, deny |-> <<<<"E", "x", "e", "c">>>>]>>,
    <<[allow |-> <<>>, deny |-> <<<<"*">>>>]>> }

(***************************************************************************)
(* The command queue on its own (command-queue.ts): runs are enqueued,     *)
(* started and settled; what a run does while it is active is left out     *)
(***************************************************************************)
LaneCalls == 1..MaxLaneRuns

\* the keys run() is called with: two user sessions and a sub-agent's session
LaneKeys == RawKeys \cup { buildSubagentSessionKey(DEFAULT_AGENT_ID, 1) }

\* the lanes as the Agent constructor leaves them, and no run() call made yet
NoLaneCase ==
  [lanes |-> [l \in LaneIds |->
                IF l = resolveGlobalLane
                THEN [getLaneState EXCEPT !.maxConcurrent = MaxConc]
                ELSE getLaneState],
   run |-> [c \in LaneCalls |-> IdleRun]]

LaneFrame == UNCHANGED <<agentVars, heartbeat, policyCase, pruneCase, guardCase, compactCase>>

\* agent.run(sessionIdOrKey, ...): the calls are numbered in the order they are made
LaneRun(c, raw) ==
  /\ laneCase.run[c].pc = "idle"
  /\ \A d \in LaneCalls : d < c => laneCase.run[d].pc # "idle"
  /\ laneCase' = agentRun(laneCase, c, raw, "hi", <<>>)
  /\ LaneFrame

\* the run of the global-lane task ends (resolved or rejected): the global-lane
\* wrapper and then the session-lane wrapper do active -= 1; drainLane(lane)
LaneRunSettles(c, ok) ==
  /\ laneCase.run[c].pc = "setup"
  /\ LET S0 == [laneCase EXCEPT !.run[c].pc = "settled",
                                !.run[c].result.status =
                                   IF ok THEN "resolved" ELSE "rejected"]
         S1 == laneTaskSettled(S0, resolveGlobalLane)
     IN  laneCase' = laneTaskSettled(S1, resolveSessionLane(laneCase.run[c].key))
  /\ LaneFrame

\* new Agent({maxConcurrentRuns: n}): setLaneConcurrency on the global lane
LaneConstruct(n) ==
  /\ laneCase.lanes[resolveGlobalLane].maxConcurrent # n
  /\ laneCase' = setLaneConcurrency(laneCase, resolveGlobalLane, n)
  /\ LaneFrame

NextLanes ==
  \/ \E c \in LaneCalls, raw \in LaneKeys : LaneRun(c, raw)
  \/ \E c \in LaneCalls, ok \in BOOLEAN : LaneRunSettles(c, ok)
  \/ \E n \in 1..MaxConc : LaneConstruct(n)

(***************************************************************************)
(* The tool-result guard on its own (session-tool-result-guard.ts): any    *)
(* caller may hand any message to the patched append, or flush             *)
(***************************************************************************)
GuardMessages ==
  { StringMessage("user", "hi"),
    BlockMessage("assistant", <<TextBlock("ok")>>),
    BlockMessage("assistant", <<ToolUseBlock(1, "exec")>>),
    BlockMessage("assistant", <<ToolUseBlock(2, "read")>>),
    BlockMessage("assistant", <<ToolUseBlock(1, "exec"), ToolUseBlock(2, "read")>>),
    BlockMessage("user", <<ToolResultBlock(1, "exec", "a\nb")>>),
    BlockMessage("user", <<ToolResultBlock(2, "read", "a\nb")>>),
    BlockMessage("user", <<ToolResultBlock(1, "exec", "a\nb"),
                           ToolResultBlock(2, "read", "a\nb")>>) }

EmptyStore == [log |-> <<>>, who |-> <<>>, pending |-> <<>>, now |-> 0]

NoGuardCase == [before |-> EmptyStore, st |-> EmptyStore, op |-> "none", msg |-> <<>>]

GuardFrame == UNCHANGED <<agentVars, heartbeat, policyCase, pruneCase, laneCase, compactCase>>

\* sessionManager.append(sessionKey, message) through the installed guard
GuardAppend(msg) ==
  /\ Len(guardCase.st.log) < MaxGuardLen
  /\ guardCase' = [before |-> guardCase.st,
                   st |-> appendCreated(guardCase.st, msg, [call |-> 0, inLane |-> FALSE]),
                   op |-> "append",
                   msg |-> <<msg>>]
  /\ GuardFrame

\* guard.flushPendingToolResults(sessionKey)
GuardFlush ==
  /\ Len(guardCase.st.log) < MaxGuardLen
  /\ guardCase' = [before |-> guardCase.st,
                   st |-> flushPendingToolResults(guardCase.st,
                                                  [call |-> 0, inLane |-> FALSE]),
                   op |-> "flush",
                   msg |-> <<>>]
  /\ GuardFrame

NextGuard ==
  \/ \E msg \in GuardMessages : GuardAppend(msg)
  \/ GuardFlush

(***************************************************************************)
(* Compaction summaries (context/compaction.ts): the summarize callback is *)
(* an LLM call that may fail; outcomes[k] tells whether its k-th call      *)
(* returns, and calls after the last listed outcome return.  A summarizer  *)
(* evaluation is [threw, text, k]: whether it rejected, the text it        *)
(* returned, and the number of summarize calls made so far.                *)
(***************************************************************************)
BASE_CHUNK_RATIO_PCT == 40
MIN_CHUNK_RATIO_PCT == 15
DEFAULT_PARTS == 2
DefaultMinMessagesForSplit == 4

\* a summary string: what kind of text it is, the N of the fixed text, the notes appended
SummaryText(kind, n, notes) == [kind |-> kind, n |-> n, notes |-> notes]
Undefined == SummaryText("undefined", 0, <<>>)
DEFAULT_SUMMARY_FALLBACK == SummaryText("fallback", 0, <<>>)
LlmSummary == SummaryText("summary", 0, <<>>)
SizeLimitsText(n) == SummaryText("fixed", n, <<>>)

RECURSIVE NotesChars(_)
NotesChars(notes) ==
  IF notes = <<>> THEN 0
  ELSE 7 + Len(Head(notes).role) + 3 + Len(Decimal(Head(notes).k)) + 18
       + (IF Tail(notes) = <<>> THEN 0 ELSE 1 + NotesChars(Tail(notes)))

\* summary.length
SummaryTextChars(s) ==
  (CASE s.kind = "summary" -> TextChars("SUMMARY")
     [] s.kind = "fallback" -> 17
     [] s.kind = "fixed" -> 18 + Len(Decimal(s.n)) + 50
     [] OTHER -> 0)
  + (IF s.notes = <<>> THEN 0 ELSE 2 + NotesChars(s.notes))

estimateMessageTokens(m) == estimateMessagesTokens(<<m>>)

normalizeParts(parts, messageCount) ==
  IF parts <= 1 THEN 1
  ELSE LET p == IF parts < 1 THEN 1 ELSE parts
           c == IF messageCount < 1 THEN 1 ELSE messageCount
       IN  IF p < c THEN p ELSE c

\* Math.max(1, Math.floor(contextWindow * computeAdaptiveChunkRatio(messages, contextWindow)))
adaptiveMaxChunkTokens(messages, contextWindow) ==
  LET total == estimateMessagesTokens(messages)
      n == Len(messages)
      \* avgRatio = total * 1.2 / (n * contextWindow)
      raw ==
        IF n = 0 \/ ~(12 * total > n * contextWindow)
        THEN (BASE_CHUNK_RATIO_PCT * contextWindow) \div 100
        ELSE IF 240 * total < (BASE_CHUNK_RATIO_PCT - MIN_CHUNK_RATIO_PCT) * n * contextWindow
        THEN (BASE_CHUNK_RATIO_PCT * n * contextWindow - 240 * total) \div (100 * n)
        ELSE (MIN_CHUNK_RATIO_PCT * contextWindow) \div 100
  IN  IF raw < 1 THEN 1 ELSE raw

RECURSIVE splitByShareLoop(_, _, _, _, _, _)
splitByShareLoop(rest, chunks, current, currentTokens, total, normalizedParts) ==
  IF rest = <<>>
  THEN IF current # <<>> THEN Append(chunks, current) ELSE chunks
  ELSE LET message == Head(rest)
           messageTokens == estimateMessageTokens(message)
           \* currentTokens + messageTokens > total / normalizedParts
           cut == /\ Len(chunks) < normalizedParts - 1
                  /\ current # <<>>
                  /\ (currentTokens + messageTokens) * normalizedParts > total
       IN  IF cut
           THEN splitByShareLoop(Tail(rest), Append(chunks, current), <<message>>,
                                 messageTokens, total, normalizedParts)
           ELSE splitByShareLoop(Tail(rest), chunks, Append(current, message),
                                 currentTokens + messageTokens, total, normalizedParts)

splitMessagesByTokenShare(messages, parts) ==
  IF messages = <<>> THEN <<>>
  ELSE IF normalizeParts(parts, Len(messages)) <= 1 THEN <<messages>>
  ELSE splitByShareLoop(messages, <<>>, <<>>, 0, estimateMessagesTokens(messages),
                        normalizeParts(parts, Len(messages)))

RECURSIVE chunkByMaxLoop(_, _, _, _, _)
chunkByMaxLoop(rest, chunks, current, currentTokens, maxTokens) ==
  IF rest = <<>>
  THEN IF current # <<>> THEN Append(chunks, current) ELSE chunks
  ELSE LET message == Head(rest)
           messageTokens == estimateMessageTokens(message)
           cut == current # <<>> /\ currentTokens + messageTokens > maxTokens
           chunks1 == IF cut THEN Append(chunks, current) ELSE chunks
           current1 == Append(IF cut THEN <<>> ELSE current, message)
           tokens1 == (IF cut THEN 0 ELSE currentTokens) + messageTokens
       IN  IF messageTokens > maxTokens
           THEN chunkByMaxLoop(Tail(rest), Append(chunks1, current1), <<>>, 0, maxTokens)
           ELSE chunkByMaxLoop(Tail(rest), chunks1, current1, tokens1, maxTokens)

chunkMessagesByMaxTokens(messages, maxTokens) ==
  IF messages = <<>> THEN <<>> ELSE chunkByMaxLoop(messages, <<>>, <<>>, 0, maxTokens)

\* estimateMessageTokens(msg) * SAFETY_MARGIN > contextWindow * 0.5
isOversizedForSummary(msg, contextWindow) ==
  12 * estimateMessageTokens(msg) > 5 * contextWindow

summarizeReturns(outcomes, k) == k > Len(outcomes) \/ outcomes[k]

generateSummary(outcomes, k) ==
  [threw |-> ~summarizeReturns(outcomes, k + 1), text |-> LlmSummary, k |-> k + 1]

RECURSIVE summarizeChunkLoop(_, _, _, _)
summarizeChunkLoop(chunks, summary, outcomes, k) ==
  IF chunks = <<>>
  THEN [threw |-> FALSE,
        text |-> IF summary = Undefined THEN DEFAULT_SUMMARY_FALLBACK ELSE summary,
        k |-> k]
  ELSE LET g == generateSummary(outcomes, k)
       IN  IF g.threw THEN [threw |-> TRUE, text |-> Undefined, k |-> g.k]
           ELSE summarizeChunkLoop(Tail(chunks), g.text, outcomes, g.k)

summarizeChunks(messages, maxChunkTokens, previousSummary, outcomes, k) ==
  IF messages = <<>>
  THEN [threw |-> FALSE,
        text |-> IF previousSummary = Undefined THEN DEFAULT_SUMMARY_FALLBACK
                 ELSE previousSummary,
        k |-> k]
  ELSE summarizeChunkLoop(chunkMessagesByMaxTokens(messages, maxChunkTokens),
                          previousSummary, outcomes, k)

RECURSIVE oversizedNotes(_, _)
oversizedNotes(messages, contextWindow) ==
  IF messages = <<>> THEN <<>>
  ELSE LET msg == Head(messages)
           tokens == estimateMessageTokens(msg)
       IN  (IF isOversizedForSummary(msg, contextWindow)
            THEN <<[role |-> msg.role, k |-> (tokens + 500) \div 1000]>> ELSE <<>>)
           \o oversizedNotes(Tail(messages), contextWindow)

smallMessages(messages, contextWindow) ==
  SelectSeq(messages, LAMBDA msg : ~isOversizedForSummary(msg, contextWindow))

\* fault variant: the second attempt is not wrapped in try/catch
summarizeSmallOrRethrow(messages, maxChunkTokens, contextWindow, previousSummary, outcomes, k) ==
  LET small == smallMessages(messages, contextWindow)
      partial == summarizeChunks(small, maxChunkTokens, previousSummary, outcomes, k)
  IN  IF small # <<>> /\ ~partial.threw
      THEN [threw |-> FALSE,
            text |-> [partial.text EXCEPT !.notes = oversizedNotes(messages, contextWindow)],
            k |-> partial.k]
      ELSE IF small # <<>> THEN [threw |-> TRUE, text |-> Undefined, k |-> partial.k]
      ELSE [threw |-> FALSE, text |-> SizeLimitsText(Len(messages)), k |-> k]

\* the second attempt and what follows it, after the first attempt rejected at call k
summarizeSmallOrGiveUp(messages, maxChunkTokens, contextWindow, previousSummary, outcomes, k) ==
  LET small == smallMessages(messages, contextWindow)
      partial == summarizeChunks(small, maxChunkTokens, previousSummary, outcomes, k)
  IN  IF small # <<>> /\ ~partial.threw
      THEN [threw |-> FALSE,
            text |-> [partial.text EXCEPT !.notes = oversizedNotes(messages, contextWindow)],
            k |-> partial.k]
      ELSE [threw |-> FALSE, text |-> SizeLimitsText(Len(messages)),
            k |-> IF small # <<>> THEN partial.k ELSE k]

summarizeWithFallback(messages, maxChunkTokens, contextWindow, previousSummary, outcomes, k) ==
  IF messages = <<>>
  THEN [threw |-> FALSE,
        text |-> IF previousSummary = Undefined THEN DEFAULT_SUMMARY_FALLBACK
                 ELSE previousSummary,
        k |-> k]
  ELSE LET first == summarizeChunks(messages, maxChunkTokens, previousSummary, outcomes, k)
       IN  IF ~first.threw THEN first
           ELSE summarizeSmallOrGiveUp(messages, maxChunkTokens, contextWindow,
                                       previousSummary, outcomes, first.k)

\* a partial summary as the user message that the merge step is given
summaryMessage(summary) == BlockMessage("user", <<SizedBlock("text", SummaryTextChars(summary))>>)

\* messages.length === 0: the fallback text, no summarize call
NoMessagesSummary ==
  [threw |-> FALSE, text |-> DEFAULT_SUMMARY_FALLBACK, k |-> 0, calls |-> <<>>,
   path |-> "empty"]

\* the loop over the splits: [threw, k, calls], calls the summarizeWithFallback
\* evaluations made, each with its messages, the call count before it and its result
RECURSIVE summarizeSplits(_, _, _, _, _, _)
summarizeSplits(splits, maxChunkTokens, contextWindow, outcomes, k, calls) ==
  IF splits = <<>> THEN [threw |-> FALSE, k |-> k, calls |-> calls]
  ELSE LET r == summarizeWithFallback(Head(splits), maxChunkTokens, contextWindow,
                                      Undefined, outcomes, k)
           calls1 == Append(calls, [messages |-> Head(splits), k |-> k, result |-> r])
       IN  IF r.threw THEN [threw |-> TRUE, k |-> r.k, calls |-> calls1]
           ELSE summarizeSplits(Tail(splits), maxChunkTokens, contextWindow, outcomes,
                                r.k, calls1)

\* [threw, text, k, calls, path]
summarizeInStages(messages, maxChunkTokens, contextWindow, outcomes) ==
  LET parts == normalizeParts(DEFAULT_PARTS, Len(messages))
      totalTokens == estimateMessagesTokens(messages)
      minMessagesForSplit == IF DefaultMinMessagesForSplit < 2 THEN 2
                             ELSE DefaultMinMessagesForSplit
      splits == SelectSeq(splitMessagesByTokenShare(messages, parts),
                          LAMBDA chunk : chunk # <<>>)
      single == summarizeWithFallback(messages, maxChunkTokens, contextWindow,
                                      Undefined, outcomes, 0)
      singleResult == [threw |-> single.threw, text |-> single.text, k |-> single.k,
                       calls |-> <<[messages |-> messages, k |-> 0, result |-> single]>>,
                       path |-> "single"]
      staged == summarizeSplits(splits, maxChunkTokens, contextWindow, outcomes, 0, <<>>)
      summaryMessages == [i \in 1..Len(staged.calls) |->
                            summaryMessage(staged.calls[i].result.text)]
      merged == summarizeWithFallback(summaryMessages, maxChunkTokens, contextWindow,
                                      Undefined, outcomes, staged.k)
  IN  IF messages = <<>>
      THEN NoMessagesSummary
      ELSE IF \/ parts <= 1
              \/ Len(messages) < minMessagesForSplit
              \/ totalTokens <= maxChunkTokens
      THEN singleResult
      ELSE IF Len(splits) <= 1 THEN singleResult
      ELSE IF staged.threw
      THEN [threw |-> TRUE, text |-> Undefined, k |-> staged.k, calls |-> staged.calls,
            path |-> "multi"]
      ELSE IF Len(staged.calls) = 1
      THEN [threw |-> FALSE, text |-> staged.calls[1].result.text, k |-> staged.k,
            calls |-> staged.calls, path |-> "multi"]
      ELSE [threw |-> merged.threw, text |-> merged.text, k |-> merged.k,
            calls |-> Append(staged.calls,
                             [messages |-> summaryMessages, k |-> staged.k, result |-> merged]),
            path |-> "multi"]

buildCompactionSummary(messages, contextWindowTokens, outcomes) ==
  IF messages = <<>>
  THEN NoMessagesSummary
  ELSE summarizeInStages(messages, adaptiveMaxChunkTokens(messages, contextWindowTokens),
                         contextWindowTokens, outcomes)

\* what compactHistoryIfNeeded hands to buildCompactionSummary: the dropped messages
\* of a prune, and a summarizer
SummarizedMessages ==
  { BlockMessage("user", <<SizedBlock("text", 40000)>>),
    BlockMessage("assistant", <<SizedBlock("text", 160000)>>),
    BlockMessage("user", <<SizedBlock("text", 400000)>>) }

DroppedHistories == UNION { [1..n -> SummarizedMessages] : n \in 1..MaxDroppedLen }

SummarizeOutcomes == [1..MaxSummarizeFailures -> BOOLEAN]

NoCompactCase == [messages |-> <<>>, outcomes |-> <<>>, done |-> FALSE,
                  summary |-> NoMessagesSummary]

CompactFrame == UNCHANGED <<agentVars, heartbeat, policyCase, pruneCase, laneCase, guardCase>>

\* compactHistoryIfNeeded past its early return: the dropped messages are summarized
Compact ==
  /\ ~compactCase.done
  /\ compactCase.messages # <<>>
  /\ compactCase' = [compactCase EXCEPT
                       !.done = TRUE,
                       !.summary = buildCompactionSummary(compactCase.messages, ContextTokens,
                                                          compactCase.outcomes)]
  /\ CompactFrame

\* the next compaction of the same dropped messages, with another summarizer behaviour
CompactAgain ==
  /\ compactCase.done
  /\ \E o \in SummarizeOutcomes :
       compactCase' = [NoCompactCase EXCEPT !.messages = compactCase.messages,
                                           !.outcomes = o]
  /\ CompactFrame

NextCompact == Compact \/ CompactAgain

(***************************************************************************)
(* Init                                                                    *)
(***************************************************************************)
InitAgent ==
  /\ lanes = [l \in LaneIds |->
                IF l = resolveGlobalLane
                THEN [getLaneState EXCEPT !.maxConcurrent = MaxConc]
                ELSE getLaneState]
  /\ run = [c \in Calls |-> IdleRun]
  /\ transcript = [s \in SessionKeys |-> <<>>]
  /\ writers = [s \in SessionKeys |-> <<>>]
  /\ clock = [s \in SessionKeys |-> 0]
  /\ pendingBySession = [s \in SessionKeys |-> <<>>]
  /\ steeringQueues = [k \in KeyStrings |-> <<>>]
  /\ nextToolId = 1
  /\ llmCalls = 0
  /\ apiCalls = 0
  /\ compactions = [s \in SessionKeys |-> <<>>]

Init ==
  /\ InitAgent
  /\ heartbeat = HeartbeatIdle
  /\ policyCase = NoPolicyCase
  /\ pruneCase = NoPruneCase
  /\ laneCase = NoLaneCase
  /\ guardCase = NoGuardCase
  /\ compactCase = NoCompactCase

FreshCall(c) == run[c].pc = "idle" /\ \A d \in Calls : d < c => run[d].pc # "idle"

(***************************************************************************)
(* Public API actions                                                      *)
(***************************************************************************)
\* agent.run(sessionIdOrKey, userMessage)
RunCall(c, raw, text) ==
  /\ UNCHANGED <<compactions, auxVars>>
  /\ FreshCall(c)
  /\ LET S == agentRun([lanes |-> lanes, run |-> run], c, raw, text, <<>>)
     IN  lanes' = S.lanes /\ run' = S.run
  /\ StoreUnchanged
  /\ UNCHANGED <<steeringQueues, nextToolId, llmCalls, apiCalls>>

\* agent.abort(runId) for a run whose controller is registered
Abort(c) ==
  /\ UNCHANGED <<compactions, auxVars>>
  /\ run[c].pc \in RunningPcs
  /\ ~run[c].aborted
  \* during a retried LLM call the abort lands either in retryAsync's sleep
  \* before the next attempt or while that attempt's stream is being read
  /\ \E asleep \in { b \in BOOLEAN : b => (run[c].pc = "llm" /\ run[c].attempt > 1) } :
        run' = [run EXCEPT ![c].aborted = TRUE,
                           ![c].abortedInLoop = run[c].pc # "ended",
                           ![c].abortedInSleep = asleep]
  /\ StoreUnchanged
  /\ UNCHANGED <<lanes, steeringQueues, nextToolId, llmCalls, apiCalls>>

\* fault variant: steer() writes the message to the session at once
SteerDirect(k, text) ==
  /\ UNCHANGED <<compactions, auxVars>>
  /\ apiCalls < MaxApiCalls
  /\ apiCalls' = apiCalls + 1
  /\ LET s == resolveSessionKey(DEFAULT_AGENT_ID, k)
     IN  SetStore(s, appendCreated(Store(s), StringMessage("user", text),
                                   [call |-> 0, inLane |-> FALSE]))
  /\ UNCHANGED <<lanes, run, steeringQueues, nextToolId, llmCalls>>

\* agent.steer(sessionKey, text)
Steer(k, text) ==
  /\ UNCHANGED <<compactions, auxVars>>
  /\ apiCalls < MaxApiCalls
  /\ apiCalls' = apiCalls + 1
  /\ steeringQueues' = [steeringQueues EXCEPT ![k] = Append(@, text)]
  /\ run' = [c \in Calls |->
               IF /\ run[c].raw = k
                  /\ run[c].pc = "tool"
                  /\ run[c].toolIdx = 1
                  /\ Len(run[c].toolCalls) > 1
               THEN [run[c] EXCEPT !.steeredFirstTool = Append(@, text)]
               ELSE run[c]]
  /\ StoreUnchanged
  /\ UNCHANGED <<lanes, nextToolId, llmCalls>>

\* new Agent({maxConcurrentRuns: n}) elsewhere in the process
Construct(n) ==
  /\ UNCHANGED <<compactions, auxVars>>
  /\ apiCalls < MaxApiCalls
  /\ apiCalls' = apiCalls + 1
  /\ LET S == setLaneConcurrency([lanes |-> lanes, run |-> run], resolveGlobalLane, n)
     IN  lanes' = S.lanes /\ run' = S.run
  /\ StoreUnchanged
  /\ UNCHANGED <<steeringQueues, nextToolId, llmCalls>>


(***************************************************************************)
(* Agent.run: the body of the inner (global lane) task                     *)
(***************************************************************************)
\* lines 573-719 of agent.ts and the head of runAgentLoop: load the history,
\* append the user message, compact once, start the loop, drain the steering
\* queue a first time
RunSetup(c) ==
  /\ UNCHANGED auxVars
  /\ run[c].pc = "setup"
  /\ LET r == run[c]
         s == r.key
         history == transcript[s]
         userMsg == StringMessage("user", r.text)
         currentMessages == Append(history, userMsg)
         prep == compactHistoryIfNeeded(currentMessages, ContextTokens)
         pruned == pruneContextMessages(currentMessages, ContextTokens, DefaultPruningTools)
         entryId == resolveFirstKeptEntryId(currentMessages, pruned.messages)
         saved == appendCreated(Store(s), userMsg, Writer(c, s))
     IN  /\ SetStore(s, afterDrain(saved, steeringQueues[s]))
         \* the compaction record is written here, before the loop, and only here
         /\ compactions' =
              IF prep # <<>> /\ entryId # 0
              THEN [compactions EXCEPT ![s] =
                      appendCompaction(@, prep[1].text, entryId,
                                       estimateMessagesTokens(currentMessages))]
              ELSE compactions
         /\ run' = [run EXCEPT ![c] =
                      [r EXCEPT !.pc = "top",
                                !.currentMessages = currentMessages,
                                !.compactionSummary = prep,
                                !.events = IF prep # <<>>
                                           THEN Append(@, Ev("compaction", 0)) ELSE @,
                                !.pendingMessages = getSteeringMessages(steeringQueues[s]),
                                !.pendingStamp = IF steeringQueues[s] # <<>> THEN DateNow(saved) ELSE @,
                                !.hasMoreToolCalls = TRUE]]
         /\ steeringQueues' = [steeringQueues EXCEPT ![s] = <<>>]
  /\ UNCHANGED <<lanes, nextToolId, llmCalls, apiCalls>>

\* the loop's locals as the result handed to stream.end
loopResult(r) ==
  [finalText |-> r.finalText, turns |-> r.turns, totalToolCalls |-> r.totalToolCalls]

\* outer catch of runAgentLoop: push agent_error, end the stream
loopFail(r, err) ==
  [streamEnd(streamPush(r, EvText("agent_error", err)), loopResult(r))
     EXCEPT !.pc = "ended", !.loopError = err]

\* fault variant: the turn count is not compared with maxTurns
InnerLoopContinuesUnbounded(r) ==
  /\ r.hasMoreToolCalls \/ r.pendingMessages # <<>>
  /\ ~r.aborted

InnerLoopContinues(r) ==
  /\ r.hasMoreToolCalls \/ r.pendingMessages # <<>>
  /\ r.turns < MaxTurns
  /\ ~r.aborted

\* top of the inner loop: count the turn, inject the pending messages
TurnStart(c) ==
  /\ UNCHANGED <<compactions, auxVars>>
  /\ run[c].pc = "top"
  /\ InnerLoopContinues(run[c])
  /\ LET r == run[c]
         s == r.key
         r1 == streamPush([r EXCEPT !.turns = @ + 1,
                                    !.turnCalls = IF r.turnRetried THEN @ ELSE 0,
                                    !.turnRetried = FALSE],
                          Ev("turn_start", r.turns + 1))
     IN  /\ SetStore(s, guardedAppendAll(Store(s), r.pendingMessages,
                                         Stamp(Writer(c, s), r.pendingStamp)))
         /\ run' = [run EXCEPT ![c] =
                      [r1 EXCEPT !.pc = "llm",
                                 !.currentMessages = @ \o r.pendingMessages,
                                 !.pendingMessages = <<>>,
                                 !.attempt = 1]]
  /\ UNCHANGED <<lanes, steeringQueues, nextToolId, llmCalls, apiCalls>>

\* the loops are left (condition false, maxTurns reached or abort observed):
\* push agent_end and end the stream with the loop's locals
LoopEnd(c) ==
  /\ UNCHANGED <<compactions, auxVars>>
  /\ run[c].pc = "top"
  /\ ~InnerLoopContinues(run[c])
  /\ LET r == run[c]
     IN  run' = [run EXCEPT ![c] =
                   [streamEnd(streamPush(r, Ev("agent_end", 0)), loopResult(r))
                      EXCEPT !.pc = "ended"]]
  /\ StoreUnchanged
  /\ UNCHANGED <<lanes, steeringQueues, nextToolId, llmCalls, apiCalls>>

\* fault variant: the event is emitted but the one-shot flag is not set
markOverflowAttemptUnflagged(r, err) ==
  streamPush(r, EvText("context_overflow_compact", err))

\* catch (llmError), first overflow: set the one-shot flag, emit the event
markOverflowAttempt(r, err) ==
  streamPush([r EXCEPT !.overflowCompactionAttempted = TRUE],
             EvText("context_overflow_compact", err))

\* fault variant: the abort signal is not consulted
shouldRetryIgnoringAbort(r, err) == isRateLimitError(err)

\* shouldRetry of the retryAsync options
shouldRetry(r, err) == ~r.aborted /\ isRateLimitError(err)

\* the tool_use ids the LLM hands out for a batch of tool names
NewToolCalls(names) == [i \in 1..Len(names) |-> [id |-> nextToolId + i - 1, name |-> names[i]]]

\* one attempt of the LLM streaming call inside retryAsync, and what follows it
LLMCall(c, out, maxCalls) ==
  /\ UNCHANGED <<compactions, auxVars>>
  /\ run[c].pc = "llm"
  /\ llmCalls < maxCalls
  /\ llmCalls' = llmCalls + 1
  \* the provider's failure if it has one; else an aborted stream is left by the
  \* loop's abort check and abortable() rejects
  /\ LET failed == out.kind = "error" \/ run[c].aborted
         err == IF out.kind = "error" THEN errorText(out) ELSE AbortedText
         r == [run[c] EXCEPT !.lastFailure = IF failed THEN err ELSE "",
                             !.turnCalls = @ + 1]
         s == r.key
         calls == NewToolCalls(out.names)
         assistantContent ==
           IF out.kind = "text" THEN <<TextBlock("ok")>>
           ELSE [i \in 1..Len(calls) |-> ToolUseBlock(calls[i].id, calls[i].name)]
         assistantMsg == BlockMessage("assistant", assistantContent)
         prep == compactHistoryIfNeeded(r.currentMessages, ContextTokens)
         rOverflow == markOverflowAttempt(r, err)
         rSaved == [r EXCEPT !.currentMessages = Append(@, assistantMsg)]
         saved == appendCreated(Store(s), assistantMsg, Writer(c, s))
     IN  IF failed /\ r.attempt < RetryAttempts /\ shouldRetry(r, err)
         THEN \* retryAsync: onRetry, sleep, next attempt
              /\ run' = [run EXCEPT ![c] =
                           [streamPush(r, EvText("retry", err)) EXCEPT !.attempt = @ + 1]]
              /\ StoreUnchanged
              /\ UNCHANGED <<steeringQueues, nextToolId>>
         ELSE IF failed /\ isContextOverflowError(err) /\ ~r.overflowCompactionAttempted
         THEN \* catch (llmError): compact once and retry the turn
              /\ run' = [run EXCEPT ![c] =
                           IF prep # <<>>
                           THEN [rOverflow EXCEPT !.events = Append(@, Ev("compaction", 0)),
                                                  !.compactionSummary = prep,
                                                  !.turns = @ - 1,
                                                  !.turnRetried = TRUE,
                                                  !.pc = "top"]
                           ELSE [loopFail(rOverflow, err) EXCEPT !.llmError = <<err>>]]
              /\ StoreUnchanged
              /\ UNCHANGED <<steeringQueues, nextToolId>>
         ELSE IF failed
         THEN /\ run' = [run EXCEPT ![c] = [loopFail(r, err) EXCEPT !.llmError = <<err>>]]
              /\ StoreUnchanged
              /\ UNCHANGED <<steeringQueues, nextToolId>>
         ELSE IF out.kind = "text"
         THEN \* no tool calls: final text, turn_end, poll the steering queue
              /\ SetStore(s, afterDrain(saved, steeringQueues[s]))
              /\ run' = [run EXCEPT ![c] =
                           [streamPushAll(rSaved, << EvText("message_delta", "ok"),
                                                     EvText("message_end", "ok"),
                                                     Ev("turn_end", r.turns) >>)
                              EXCEPT !.hasMoreToolCalls = FALSE,
                                     !.finalText = "ok",
                                     !.pendingMessages = getSteeringMessages(steeringQueues[s]),
                                     !.pendingStamp = IF steeringQueues[s] # <<>> THEN DateNow(saved) ELSE @,
                                     !.pc = "top"]]
              /\ steeringQueues' = [steeringQueues EXCEPT ![s] = <<>>]
              /\ UNCHANGED nextToolId
         ELSE \* tool calls: start executing the first one
              /\ SetStore(s, saved)
              /\ run' = [run EXCEPT ![c] =
                           [streamPush(rSaved, Ev("tool_execution_start", calls[1].id))
                              EXCEPT !.hasMoreToolCalls = TRUE,
                                     !.toolCalls = calls,
                                     !.toolIdx = 1,
                                     !.toolResults = <<>>,
                                     !.startedAborted = r.aborted,
                                     !.pc = "tool"]]
              /\ nextToolId' = nextToolId + Len(calls)
              /\ UNCHANGED steeringQueues
  /\ UNCHANGED <<lanes, apiCalls>>


\* the tool_result content the loop records for a finished call
toolResultText(outcome, name) ==
  IF outcome = "throw" THEN "Execution error"
  ELSE IF name = "sessions_spawn" THEN "Sub-agent started"
  ELSE "a\nb"

\* lines 612-647: after a call's result, poll the steering queue; skip the
\* remaining calls if a message is queued; at the end of the batch persist the
\* results message and close the turn
afterToolResult(r, steering) ==
  LET i == r.toolIdx
      n == Len(r.toolCalls)
      remaining == SubSeq(r.toolCalls, i + 1, n)
      rSkipped ==
        streamPush(
          [streamPushAll(r, [j \in 1..Len(remaining) |-> Ev("tool_skipped", remaining[j].id)])
             EXCEPT !.toolResults = @ \o [j \in 1..Len(remaining) |-> skipToolCall(remaining[j])]],
          Ev("steering", Len(steering)))
      rBatch == IF steering # <<>> THEN rSkipped ELSE r
      resultMsg == BlockMessage("user", rBatch.toolResults)
  IN  IF steering = <<>> /\ i < n
      THEN [msg |-> <<>>,
            r |-> [streamPush(r, Ev("tool_execution_start", r.toolCalls[i + 1].id))
                     EXCEPT !.toolIdx = i + 1, !.startedAborted = r.aborted]]
      ELSE [msg |-> <<resultMsg>>,
            r |-> [streamPush([rBatch EXCEPT !.currentMessages = Append(@, resultMsg)],
                              Ev("turn_end", r.turns))
                     EXCEPT !.pendingMessages = steering, !.pc = "top"]]

\* the wrapped tool.execute of the current call settles
ToolDone(c, outcome) ==
  /\ UNCHANGED <<compactions, auxVars>>
  /\ run[c].pc = "tool"
  /\ LET r == run[c]
         s == r.key
         call == r.toolCalls[r.toolIdx]
         spawns == /\ call.name = "sessions_spawn"
                   /\ ~r.startedAborted
                   /\ ~isSubagentSessionKey(s)
         child == CHOOSE d \in Calls : FreshCall(d)
         rCounted == [r EXCEPT !.totalToolCalls = @ + 1]
         rDone == streamPush([rCounted EXCEPT !.toolResults =
                                Append(@, ToolResultBlock(call.id, call.name,
                                                          toolResultText(outcome, call.name)))],
                             Ev("tool_execution_end", call.id))
         next == afterToolResult(rDone, getSteeringMessages(steeringQueues[s]))
         drained == afterDrain(Store(s), steeringQueues[s])
         S0 == [lanes |-> lanes,
                run |-> [run EXCEPT ![c] = [next.r EXCEPT !.pendingStamp =
                                              IF steeringQueues[s] # <<>>
                                              THEN DateNow(Store(s)) ELSE @]]]
         S1 == IF spawns
               THEN agentRun(S0, child, buildSubagentSessionKey(DEFAULT_AGENT_ID, child),
                             "task", s)
               ELSE S0
     IN  \* wrapToolWithAbortSignal throws at once if the run is already aborted;
         \* spawnSubagent throws for a sub-agent session
         /\ r.startedAborted => outcome = "throw"
         \* a tool that started normally fails only when its abort signal fires
         /\ (outcome = "throw" /\ call.name # "sessions_spawn") => r.aborted
         /\ (call.name = "sessions_spawn" /\ ~r.startedAborted) =>
               outcome = IF isSubagentSessionKey(s) THEN "throw" ELSE "ok"
         /\ spawns => \E d \in Calls : FreshCall(d)
         /\ IF outcome = "novalue"
            THEN \* result.length throws: the loop's outer catch ends the run
                 /\ run' = [run EXCEPT ![c] = loopFail(rCounted, "TypeError")]
                 /\ lanes' = lanes
                 /\ StoreUnchanged
                 /\ UNCHANGED steeringQueues
            ELSE /\ lanes' = S1.lanes
                 /\ run' = S1.run
                 /\ IF next.msg # <<>>
                    THEN /\ SetStore(s, appendCreated(drained, next.msg[1], Writer(c, s)))
                         /\ steeringQueues' = [steeringQueues EXCEPT ![s] = <<>>]
                    ELSE /\ StoreUnchanged
                         /\ UNCHANGED steeringQueues
  /\ UNCHANGED <<nextToolId, llmCalls, apiCalls>>

\* Agent.run after the loop's stream ended: map the result or rethrow,
\* then the finally block
RunFinish(c) ==
  /\ UNCHANGED <<compactions, auxVars>>
  /\ run[c].pc = "ended"
  /\ LET r == run[c]
         s == r.key
         res == r.streamResult[1]
     IN  /\ run' = [run EXCEPT ![c] =
                      IF r.loopError # ""
                      THEN [r EXCEPT !.events = Append(@, EvText("agent_error", r.loopError)),
                                     !.result = [status |-> "rejected", text |-> r.loopError,
                                                 turns |-> 0, toolCalls |-> 0],
                                     !.pc = "finished"]
                      ELSE [r EXCEPT !.result = [status |-> "resolved", text |-> res.finalText,
                                                 turns |-> res.turns,
                                                 toolCalls |-> res.totalToolCalls],
                                     !.pc = "finished"]]
         /\ SetStore(s, flushPendingToolResults(Store(s), Stamp(Writer(c, s), 0)))
  /\ UNCHANGED <<lanes, steeringQueues, nextToolId, llmCalls, apiCalls>>

\* the global-lane task and then the session-lane task settle; run() settles
RunSettle(c) ==
  /\ UNCHANGED <<compactions, auxVars>>
  /\ run[c].pc = "finished"
  /\ LET S0 == [lanes |-> lanes, run |-> [run EXCEPT ![c].pc = "settled"]]
         S1 == laneTaskSettled(S0, resolveGlobalLane)
         S2 == laneTaskSettled(S1, resolveSessionLane(run[c].key))
     IN  lanes' = S2.lanes /\ run' = S2.run
  /\ StoreUnchanged
  /\ UNCHANGED <<steeringQueues, nextToolId, llmCalls, apiCalls>>

\* spawnSubagent's continuation on the child's run() promise
SubagentCallback(c) ==
  /\ UNCHANGED <<compactions, auxVars>>
  /\ run[c].pc = "settled"
  /\ run[c].parent # <<>>
  /\ ~run[c].callbackDone
  /\ run' = [run EXCEPT ![c].callbackDone = TRUE]
  /\ IF run[c].result.status = "resolved"
     THEN SetStore(run[c].parent,
                   appendCreated(Store(run[c].parent),
                                 StringMessage("user", SubagentSummaryText),
                                 Writer(c, run[c].parent)))
     ELSE StoreUnchanged
  /\ UNCHANGED <<lanes, steeringQueues, nextToolId, llmCalls, apiCalls>>

Next ==
  \/ \E c \in Calls, raw \in RawKeys, text \in UserTexts : RunCall(c, raw, text)
  \/ \E c \in Calls : Abort(c)
  \/ \E k \in RawKeys, text \in SteerTexts : Steer(k, text)
  \/ \E n \in 1..MaxConc : Construct(n)
  \/ \E c \in Calls : RunSetup(c)
  \/ \E c \in Calls : TurnStart(c)
  \/ \E c \in Calls : LoopEnd(c)
  \/ \E c \in Calls, out \in LLMOutcomes : LLMCall(c, out, MaxLLMCalls)
  \/ \E c \in Calls, outcome \in ToolOutcomes : ToolDone(c, outcome)
  \/ \E c \in Calls : RunFinish(c)
  \/ \E c \in Calls : RunSettle(c)
  \/ \E c \in Calls : SubagentCallback(c)

Spec == Init /\ [][Next]_vars

(***************************************************************************)
(* One run on one session, a provider that answers with text or fails:     *)
(* the retry and overflow paths with room for every attempt                *)
(***************************************************************************)
RetryKey == <<"agent", "main", "t">>

NextRetry ==
  \/ \E text \in UserTexts : RunCall(1, RetryKey, text)
  \/ Abort(1)
  \/ \E text \in SteerTexts : Steer(RetryKey, text)
  \/ RunSetup(1)
  \/ TurnStart(1)
  \/ LoopEnd(1)
  \/ \E out \in { o \in LLMOutcomes : o.kind # "tools" } : LLMCall(1, out, MaxRetryCalls)
  \/ RunFinish(1)
  \/ RunSettle(1)

SpecRetry == Init /\ [][NextRetry]_vars

\* the heartbeat manager on its own
SpecHeartbeat == Init /\ [][NextHeartbeat]_vars

\* armed timeouts fire, and the file read and the callback of an execution settle
SpecHeartbeatFair ==
  /\ Init /\ [][NextHeartbeat]_vars
  /\ WF_vars(\E within \in BOOLEAN : WakeTimerFires(within))
  /\ WF_vars(\E i \in 1..MaxHeartbeatCalls, empty \in BOOLEAN : RunOnceRead(i, empty))
  /\ WF_vars(\E i \in 1..MaxHeartbeatCalls, reply \in CallbackReplies : RunOnceCallback(i, reply))

\* isToolAllowed applied to every name and policy of the input sets
InitPolicy ==
  /\ InitAgent
  /\ heartbeat = HeartbeatIdle
  /\ pruneCase = NoPruneCase
  /\ laneCase = NoLaneCase
  /\ guardCase = NoGuardCase
  /\ compactCase = NoCompactCase
  /\ policyCase \in { [NoPolicyCase EXCEPT !.name = n, !.policy = pol] :
                         n \in ToolNameInputs, pol \in PolicyInputs }

SpecPolicy == InitPolicy /\ [][NextPolicy]_vars

\* pruneContextMessages applied to every history and window of the input sets
InitPrune ==
  /\ InitAgent
  /\ heartbeat = HeartbeatIdle
  /\ policyCase = NoPolicyCase
  /\ laneCase = NoLaneCase
  /\ guardCase = NoGuardCase
  /\ compactCase = NoCompactCase
  /\ pruneCase \in { [NoPruneCase EXCEPT !.messages = ms, !.contextWindowTokens = w,
                                          !.stage = "input"] :
                        ms \in PruneHistories, w \in PruneWindows }

SpecPrune == InitPrune /\ [][NextPrune]_vars

\* pruneContextMessages applied with tool rules to histories of named tools' results
InitPruneTools ==
  /\ InitAgent
  /\ heartbeat = HeartbeatIdle
  /\ policyCase = NoPolicyCase
  /\ laneCase = NoLaneCase
  /\ guardCase = NoGuardCase
  /\ compactCase = NoCompactCase
  /\ pruneCase \in { [NoPruneCase EXCEPT !.messages = ms, !.contextWindowTokens = w,
                                          !.tools = t, !.stage = "input"] :
                        ms \in PruneToolHistories, w \in PruneWindows, t \in PruneToolRules }

SpecPruneTools == InitPruneTools /\ [][NextPrune]_vars

\* pruneContextMessages applied to longer histories of text messages
InitPruneTexts ==
  /\ InitAgent
  /\ heartbeat = HeartbeatIdle
  /\ policyCase = NoPolicyCase
  /\ laneCase = NoLaneCase
  /\ guardCase = NoGuardCase
  /\ compactCase = NoCompactCase
  /\ pruneCase \in { [NoPruneCase EXCEPT !.messages = ms, !.contextWindowTokens = w,
                                          !.stage = "input"] :
                        ms \in PruneTextHistories, w \in PruneWindows }

SpecPruneTexts == InitPruneTexts /\ [][NextPrune]_vars

InitCompact ==
  /\ InitAgent
  /\ heartbeat = HeartbeatIdle
  /\ policyCase = NoPolicyCase
  /\ pruneCase = NoPruneCase
  /\ laneCase = NoLaneCase
  /\ guardCase = NoGuardCase
  /\ \E ms \in DroppedHistories, o \in SummarizeOutcomes :
       compactCase = [NoCompactCase EXCEPT !.messages = ms, !.outcomes = o]

SpecCompact == InitCompact /\ [][NextCompact]_vars

SpecGuard == Init /\ [][NextGuard]_vars

(***************************************************************************)
(* run() on a user session or on a sub-agent's session, with a provider    *)
(* that may call sessions_spawn and a second run still free for a child    *)
(***************************************************************************)
SpawnKeys == { <<"s">>, buildSubagentSessionKey(DEFAULT_AGENT_ID, 1) }

NextSpawn ==
  \/ \E raw \in SpawnKeys, text \in UserTexts : RunCall(1, raw, text)
  \/ \E c \in Calls : RunSetup(c)
  \/ \E c \in Calls : TurnStart(c)
  \/ \E c \in Calls : LoopEnd(c)
  \/ \E c \in Calls, out \in LLMOutcomes : LLMCall(c, out, MaxSpawnCalls)
  \/ \E c \in Calls, outcome \in ToolOutcomes : ToolDone(c, outcome)
  \/ \E c \in Calls : RunFinish(c)
  \/ \E c \in Calls : RunSettle(c)
  \/ \E c \in Calls : SubagentCallback(c)

SpecSpawn == Init /\ [][NextSpawn]_vars

\* the command queue under run() calls in up to three sessions
SpecLanes == Init /\ [][NextLanes]_vars

\* the command queue when every started task settles at some time
SpecLanesFair ==
  /\ Init
  /\ [][NextLanes]_vars
  /\ \A c \in LaneCalls : WF_vars(\E ok \in BOOLEAN : LaneRunSettles(c, ok))

(***************************************************************************)
(* Properties                                                              *)
(***************************************************************************)
IsToolUseMessage(m) ==
  m.role = "assistant" /\ ~m.str /\ SelectBlocks(m.blocks, "tool_use") # <<>>

HasResultFor(m, id) ==
  /\ m.role = "user"
  /\ ~m.str
  /\ \E j \in 1..Len(m.blocks) : m.blocks[j].type = "tool_result" /\ m.blocks[j].id = id

\* every tool_use id of an assistant message has a tool_result in a later user message
ToolsPaired(log) ==
  \A i \in 1..Len(log) : \A j \in 1..Len(log[i].blocks) :
    (log[i].role = "assistant" /\ log[i].blocks[j].type = "tool_use")
      => \E k \in (i + 1)..Len(log) : HasResultFor(log[k], log[i].blocks[j].id)

HasContent(log, text) ==
  \E i \in 1..Len(log) : \E j \in 1..Len(log[i].blocks) : log[i].blocks[j].content = text

HasEvent(c, t) == \E i \in 1..Len(run[c].events) : run[c].events[i].type = t

CountEvents(evs, t) == Len(SelectSeq(evs, LAMBDA e : e.type = t))

Finished(c) == run[c].pc \in { "finished", "settled" }

\* from agent_start until the finally block has run
ActiveRun(c) == run[c].pc \in RunningPcs \cup { "finished" }

\* between the first turn_start and the terminal event of the loop
InTurnWindow(c) ==
  /\ HasEvent(c, "turn_start")
  /\ ~HasEvent(c, "agent_end")
  /\ ~HasEvent(c, "agent_error")

IsSteeringMessage(m) == m.role = "user" /\ m.str /\ m.text \in SteerTexts

NewEntries(s) == SubSeq(transcript'[s], Len(transcript[s]) + 1, Len(transcript'[s]))

IsSuffix(a, b) ==
  Len(a) <= Len(b) /\ SubSeq(b, Len(b) - Len(a) + 1, Len(b)) = a

\* C1: Tool pairing. Each time a run() call settles, every tool_use id carried
\* by an assistant message of its session's transcript has a tool_result block
\* with the same id in a later user message.
C1_ToolPairing ==
  [][\A c \in Calls :
       (run[c].pc # "settled" /\ run'[c].pc = "settled")
         => ToolsPaired(transcript'[run'[c].key])]_vars

\* a run has settled after the guard wrote a synthetic result for a tool call
\* whose result the loop never recorded
C1_Witness ==
  \E c \in Calls :
    /\ run[c].pc = "settled"
    /\ run[c].loopError = "TypeError"
    /\ HasContent(transcript[run[c].key], SyntheticText)

\* C2: Lane serialization. Two run() calls of one session key are never active
\* at the same time, and their turn_start -> agent_end windows never overlap.
C2_LaneSerialization ==
  \A c, d \in Calls :
    (c # d /\ run[c].key # <<>> /\ run[c].key = run[d].key)
      => /\ ~(ActiveRun(c) /\ ActiveRun(d))
         /\ ~(InTurnWindow(c) /\ InTurnWindow(d))

\* one run of a session is inside its turn window while a second run() call of
\* the same session waits in the session lane
C2_Witness ==
  \E c, d \in Calls :
    /\ c # d
    /\ run[c].key = run[d].key
    /\ InTurnWindow(c)
    /\ run[d].pc = "sessionQueue"

\* C3: Global bound. The global lane's active count never exceeds its configured
\* maxConcurrent, and no more than that many session keys have an active run,
\* for any interleaving of run() calls, completions and Agent constructions.
C3_GlobalBound ==
  /\ lanes[resolveGlobalLane].active <= lanes[resolveGlobalLane].maxConcurrent
  /\ Cardinality({ run[c].key : c \in { d \in Calls : ActiveRun(d) } })
       <= lanes[resolveGlobalLane].maxConcurrent

\* C4: Cancellation is not an error. A run that abort() reached before its loop
\* had ended (and that no other failure ended) emits agent_end and no
\* agent_error, and run() resolves with the accumulated finalText, turns and
\* toolCalls.
C4_CancellationNotError ==
  \A c \in Calls :
    (Finished(c) /\ run[c].abortedInLoop /\ run[c].loopError \in { "", AbortedText })
      => /\ HasEvent(c, "agent_end")
         /\ ~HasEvent(c, "agent_error")
         /\ run[c].result.status = "resolved"
         /\ run[c].result.text = run[c].finalText
         /\ run[c].result.turns = run[c].turns
         /\ run[c].result.toolCalls = run[c].totalToolCalls

\* C5: Run result. When a run ends without error, run() resolves with the
\* loop's turns, its number of executed tool calls and the text of the last
\* text-only assistant turn.
C5_RunResult ==
  \A c \in Calls :
    (Finished(c) /\ run[c].loopError = "")
      => /\ run[c].result.status = "resolved"
         /\ run[c].result.turns = run[c].turns
         /\ run[c].result.toolCalls = run[c].totalToolCalls
         /\ run[c].result.text = run[c].finalText

\* C6: Steering interrupt. If steer(k, text) is called with the string passed
\* to run(k, ...) while the first of several tool calls executes, then when that
\* call completes it keeps its real result, every remaining call is skipped with
\* the skip text, one steering event counts the queued texts, and the steered
\* text is queued as the next turn's user message.
C6_SteeringInterrupt ==
  [][\A c \in Calls :
       ( /\ run[c].pc = "tool"
         /\ run[c].toolIdx = 1
         /\ Len(run[c].toolCalls) > 1
         /\ run[c].steeredFirstTool # <<>>
         /\ Len(run'[c].toolResults) > 0 )
         => /\ run'[c].pc = "top"
            /\ Len(run'[c].toolResults) = Len(run[c].toolCalls)
            /\ run'[c].toolResults[1].content # SkippedText
            /\ \A j \in 2..Len(run'[c].toolResults) :
                 run'[c].toolResults[j].content = SkippedText
            /\ run'[c].totalToolCalls = run[c].totalToolCalls + 1
            /\ CountEvents(run'[c].events, "steering")
                 = CountEvents(run[c].events, "steering") + 1
            /\ \E i \in 1..Len(run'[c].events) :
                 /\ run'[c].events[i].type = "steering"
                 /\ run'[c].events[i].n = Len(run'[c].pendingMessages)
            /\ IsSuffix(getSteeringMessages(run[c].steeredFirstTool),
                        run'[c].pendingMessages)]_vars

\* C7: Steering checkpoints. A steered message is appended to the transcript
\* only by the start of a turn of that session's run, when every earlier
\* tool_use has its result: never right after an assistant message that carries
\* tool_use blocks and never while tool results are outstanding.
C7_SteeringCheckpoints ==
  [][\A s \in SessionKeys :
       (\E i \in 1..Len(NewEntries(s)) : IsSteeringMessage(NewEntries(s)[i]))
         => /\ pendingBySession[s] = <<>>
            /\ transcript[s] # <<>>
                 => ~IsToolUseMessage(transcript[s][Len(transcript[s])])
            /\ \E c \in Calls :
                 run[c].key = s /\ run[c].pc = "top" /\ run'[c].pc = "llm"]_vars

\* a steered message sits in the transcript right after the user message that
\* carries a turn's tool results, skipped ones included
C7_Witness ==
  \E s \in SessionKeys : \E i \in 2..Len(transcript[s]) :
    /\ IsSteeringMessage(transcript[s][i])
    /\ transcript[s][i - 1].role = "user"
    /\ HasContent(<<transcript[s][i - 1]>>, SkippedText)

\* C8: Single writer per session. Every append to a session's transcript is
\* made by the task that holds that session's lane.
C8_SingleWriter ==
  \A s \in SessionKeys : \A i \in 1..Len(writers[s]) : writers[s][i].inLane

\* C9: Overflow recovery. Whenever the first context-overflow failure of a run
\* is handled, context_overflow_compact is emitted, the summary message is
\* installed as compactionSummary, turns is decremented and the turn is retried.
C9_OverflowRecovery ==
  [][\A c \in Calls :
       (~run[c].overflowCompactionAttempted /\ run'[c].overflowCompactionAttempted)
         => /\ CountEvents(run'[c].events, "context_overflow_compact") = 1
            /\ run'[c].compactionSummary = <<createCompactionSummaryMessage("SUMMARY")>>
            /\ run'[c].turns = run[c].turns - 1
            /\ run'[c].loopError = ""
            /\ run'[c].pc = "top"
            /\ InnerLoopContinues(run'[c])]_vars

HasUserText(log, text) ==
  \E i \in 1..Len(log) : log[i].role = "user" /\ log[i].str /\ log[i].text = text

\* the run recovered from a context overflow: the overflow was caught, the
\* compactor's summary was installed, and a later attempt completed a turn
OverflowRecovered(c) ==
  /\ run[c].pc \in { "ended", "finished", "settled" }
  /\ run[c].loopError = ""
  /\ HasEvent(c, "context_overflow_compact")
  /\ run[c].compactionSummary # <<>>
  /\ CountEvents(run[c].events, "turn_end") >= 1

\* C11: after a context-overflow recovery the session log holds a compaction
\* record for the installed summary, the run's user message is still in the
\* transcript, and only completed attempts are counted as turns (the success
\* after the failed attempt is turn 1)
C11_OverflowRecoveryRecord ==
  \A c \in Calls :
    OverflowRecovered(c) =>
      /\ \E i \in 1..Len(compactions[run[c].key]) :
            compactions[run[c].key][i].summary = run[c].compactionSummary[1].text
      /\ HasUserText(transcript[run[c].key], run[c].text)
      /\ run[c].turns = CountEvents(run[c].events, "turn_end")

\* C12: in every turn, a turn retried after context-overflow compaction
\* included, the LLM streaming call is invoked at most RetryAttempts times
C12_RetryFiniteness ==
  \A c \in Calls : run[c].turnCalls <= RetryAttempts

\* an LLM attempt of run c settles in this step
LLMAttemptSettles(c) ==
  /\ llmCalls' = llmCalls + 1
  /\ run[c].pc = "llm"
  /\ run'[c] # run[c]

WakeFired ==
  /\ heartbeat' # heartbeat
  /\ heartbeat'.last \in { "fireInvoke", "fireBusy", "fireNoHandler" }

\* C14: the request() calls made before the wake timeout fires, with no
\* handler execution of the wake layer in flight at that moment, are taken up
\* by exactly one handler invocation: the firing invokes the handler, takes
\* up all of them and leaves no timeout armed, and a handler invocation is
\* never made without a request it takes up
C14_HeartbeatCoalescing ==
  [][ /\ (WakeFired /\ ~heartbeat.running /\ heartbeat.unserved >= 1) =>
            /\ heartbeat'.last = "fireInvoke"
            /\ heartbeat'.served = heartbeat.unserved
            /\ heartbeat'.unserved = 0
            /\ heartbeat'.pendingReason = ""
            /\ heartbeat'.wakeTimeouts = 0
            /\ ~heartbeat'.timer
      /\ (WakeFired /\ heartbeat'.last = "fireInvoke") => heartbeat.unserved >= 1 ]_vars

\* one handler invocation took up two or more request() calls
C14_Witness ==
  /\ heartbeat.last = "fireInvoke"
  /\ heartbeat.served >= 2
  /\ heartbeat.wakeTimeouts = 0

\* C15: at most one runOnce execution is in flight at any time
C15_HeartbeatSingleFlight ==
  Len(heartbeat.executions) <= 1

\* the glob: a pattern character stands for itself, except that * stands for
\* any run of characters outside the set barred
RECURSIVE GlobMatch(_, _, _)
GlobMatch(pattern, name, barred) ==
  IF pattern = <<>> THEN name = <<>>
  ELSE IF Head(pattern) = "*"
  THEN \/ GlobMatch(Tail(pattern), name, barred)
       \/ /\ name # <<>>
          /\ Head(name) \notin barred
          /\ GlobMatch(pattern, Tail(name), barred)
  ELSE /\ name # <<>>
       /\ Head(name) = Head(pattern)
       /\ GlobMatch(Tail(pattern), Tail(name), barred)

AllowOnly(p) ==
  /\ policyCase.evaluated
  /\ policyCase.policy # <<>>
  /\ policyCase.policy[1].allow = <<p>>
  /\ policyCase.policy[1].deny = <<>>

\* the glob applied to the normalized name and the normalized pattern: the
\* pattern * alone matches every name, a * inside a longer pattern does not
\* run over a line terminator
NormalizedMatch(p, name) ==
  GlobMatch(normalizeToolName(p), normalizeToolName(name),
            IF normalizeToolName(p) = <<"*">> THEN {} ELSE LineTerminators)

\* C16 (as amended): isToolAllowed(t, {allow: [p]}) is true if and only if the
\* normalized t (trimmed, lower-cased, aliases bash and apply-patch resolved)
\* matches the normalized p under the glob, where * stands for any run of
\* characters (in a pattern longer than "*": other than line terminators), or
\* the normalized t is apply_patch and exec matches p; and for every policy a name whose normalized form matches
\* a deny pattern is rejected whatever the allow list contains
C16_GlobPolicy ==
  /\ \A p \in PatternInputs :
       AllowOnly(p) =>
         (policyCase.allowed <=>
            \/ NormalizedMatch(p, policyCase.name)
            \/ /\ normalizeToolName(policyCase.name) = APPLY_PATCH
               /\ NormalizedMatch(p, EXEC))
  /\ (/\ policyCase.evaluated
      /\ policyCase.policy # <<>>
      /\ \E i \in 1..Len(policyCase.policy[1].deny) :
           NormalizedMatch(policyCase.policy[1].deny[i], policyCase.name))
       => ~policyCase.allowed

\* C16 (as stated): isToolAllowed(t, {allow: [p]}) is true if and only if t
\* matches p under the glob, and a name matching a deny pattern is rejected
C16_GlobPolicyAsStated ==
  /\ \A p \in PatternInputs :
       AllowOnly(p) => (policyCase.allowed <=> GlobMatch(p, policyCase.name, {}))
  /\ (/\ policyCase.evaluated
      /\ policyCase.policy # <<>>
      /\ \E i \in 1..Len(policyCase.policy[1].deny) :
           GlobMatch(policyCase.policy[1].deny[i], policyCase.name, {}))
       => ~policyCase.allowed

\* a name that a wildcard allow pattern matches is rejected by a deny pattern
C16_Witness ==
  /\ policyCase.evaluated
  /\ policyCase.policy # <<>>
  /\ ~policyCase.allowed
  /\ \E i \in 1..Len(policyCase.policy[1].allow) :
       /\ compilePattern(policyCase.policy[1].allow[i]).kind = "regex"
       /\ NormalizedMatch(policyCase.policy[1].allow[i], policyCase.name)
  /\ \E i \in 1..Len(policyCase.policy[1].deny) :
       NormalizedMatch(policyCase.policy[1].deny[i], policyCase.name)

Timestamps(ms) == [i \in 1..Len(ms) |-> ms[i].timestamp]

\* C17: pruning the kept output again with the same window and settings returns
\* the same message list and drops nothing
C17_PruneIdempotence ==
  pruneCase.stage = "repruned" =>
    /\ pruneCase.second.messages = pruneCase.first.messages
    /\ pruneCase.second.droppedMessages = <<>>

\* the first pass trimmed or cleared a tool result and dropped a message, and
\* the second pass has run
C17_Witness ==
  /\ pruneCase.stage = "repruned"
  /\ pruneCase.first.droppedMessages # <<>>
  /\ \E i \in 1..Len(pruneCase.first.messages) :
       \E j \in 1..Len(pruneCase.first.messages[i].blocks) :
         pruneCase.first.messages[i].blocks[j].content # "data"

\* C18: the pruner never returns more messages than it was given; the kept
\* messages are a contiguous suffix of the input order, the dropped messages
\* the prefix before it in input order, so every dropped message has a
\* timestamp not later than every kept message
C18_PruneMonotonicity ==
  pruneCase.stage \in { "pruned", "repruned" } =>
    LET input == Timestamps(pruneCase.messages)
        kept == Timestamps(pruneCase.first.messages)
        dropped == Timestamps(pruneCase.first.droppedMessages)
    IN  /\ Len(kept) <= Len(input)
        /\ dropped \o kept = input
        /\ \A i \in 1..Len(dropped) : \A j \in 1..Len(kept) : dropped[i] <= kept[j]

\* messages were dropped in front of a kept suffix of two or more messages
C18_Witness ==
  /\ pruneCase.stage = "pruned"
  /\ Len(pruneCase.first.droppedMessages) >= 2
  /\ Len(pruneCase.first.messages) >= 2

\* C19 (as amended): the total estimated chars of the kept messages is at most
\* budgetChars = floor(contextWindowTokens * 4 * maxHistoryShare), unless the
\* last message alone exceeds the budget, in which case exactly that message
\* is kept
C19_PruneFitsBudget ==
  pruneCase.stage \in { "pruned", "repruned" } =>
    LET kept == pruneCase.first.messages
        budgetChars == (pruneCase.contextWindowTokens * 4) \div 2
    IN  \/ estimateMessagesChars(kept) <= budgetChars
        \/ /\ Len(kept) = 1
           /\ kept[1].timestamp = Len(pruneCase.messages)
           /\ estimateMessageChars(kept[1]) > budgetChars

\* C19 (as stated): the total estimated chars of the kept messages is at most
\* budgetChars for every input history
C19_PruneFitsBudgetAsStated ==
  pruneCase.stage \in { "pruned", "repruned" } =>
    estimateMessagesChars(pruneCase.first.messages)
      <= (pruneCase.contextWindowTokens * 4) \div 2

\* messages were dropped and the kept ones, more than one, fit the budget
C19_Witness ==
  /\ pruneCase.stage = "pruned"
  /\ pruneCase.first.droppedMessages # <<>>
  /\ Len(pruneCase.first.messages) >= 2
  /\ estimateMessagesChars(pruneCase.first.messages)
       <= (pruneCase.contextWindowTokens * 4) \div 2

\* a user message whose content is made of tool_result blocks only
IsToolResultCarrier(m) ==
  /\ m.role = "user"
  /\ ~m.str
  /\ m.blocks # <<>>
  /\ \A i \in 1..Len(m.blocks) : m.blocks[i].type = "tool_result"

\* the assistant messages and the user messages that carry text, in transcript order
Conversation(log) == SelectSeq(log, LAMBDA m : ~IsToolResultCarrier(m))

LaneStarted(S, c) == S.run[c].pc \notin { "idle", "sessionQueue" }

\* the global-lane task of call c (the run itself) has been started
LaneRunning(S, c) == S.run[c].pc \in { "setup", "settled" }

\* C22: FIFO start order -- within a lane tasks start in the order they were
\* enqueued: in every step the entries that leave a lane's queue are the ones
\* at its front and the others keep their order; the runs of one session start
\* in the order their run() calls were made
C22_FifoStartOrder ==
  [][/\ \A l \in LaneIds :
         LET q  == laneCase.lanes[l].queue
             q2 == laneCase'.lanes[l].queue
             k  == Cardinality({ i \in 1..Len(q) : q[i] \notin SeqRange(q2) })
         IN  /\ \A i \in 1..Len(q) : q[i] \notin SeqRange(q2) => i <= k
             /\ Len(q2) >= Len(q) - k
             /\ SubSeq(q2, 1, Len(q) - k) = SubSeq(q, k + 1, Len(q))
     /\ \A c, d \in LaneCalls :
          (c < d /\ laneCase'.run[c].key = laneCase'.run[d].key /\ LaneStarted(laneCase', d))
            => LaneStarted(laneCase', c)
     /\ \A c, d \in LaneCalls :
          (/\ \E i, j \in 1..Len(laneCase.lanes[resolveGlobalLane].queue) :
                /\ i < j
                /\ laneCase.lanes[resolveGlobalLane].queue[i].call = c
                /\ laneCase.lanes[resolveGlobalLane].queue[j].call = d
           /\ LaneRunning(laneCase', d))
            => LaneRunning(laneCase', c)]_vars

\* three runs of one session: the first has settled, the second was taken from
\* the head of the session lane's queue and the third still waits behind it
C22_Witness ==
  \E c, d, e \in LaneCalls :
    /\ c < d /\ d < e
    /\ laneCase.run[c].key = laneCase.run[d].key
    /\ laneCase.run[d].key = laneCase.run[e].key
    /\ laneCase.run[c].pc = "settled"
    /\ LaneStarted(laneCase, d)
    /\ laneCase.run[e].pc = "sessionQueue"

\* the session key reads agent:<id>:subagent:<uuid>
HasSubagentTail(key) == Len(key) > 3 /\ key[1] = "agent" /\ key[3] = "subagent"

\* the transcript holds the result of a sessions_spawn call with this content
SpawnResult(s, text) ==
  \E i \in 1..Len(transcript[s]) :
    \E j \in 1..Len(transcript[s][i].blocks) :
      /\ transcript[s][i].blocks[j].type = "tool_result"
      /\ transcript[s][i].blocks[j].name = "sessions_spawn"
      /\ transcript[s][i].blocks[j].content = text

\* C23: sub-agent depth is at most one -- a run whose session key has a
\* subagent: tail never starts a child run: no run has such a session as its
\* parent, no child is created or enqueued by it, and its sessions_spawn call fails
C23_SubagentDepth ==
  /\ \A c \in Calls : run[c].parent # <<>> => ~HasSubagentTail(run[c].parent)
  /\ \A s \in SessionKeys : HasSubagentTail(s) => ~SpawnResult(s, "Sub-agent started")
  /\ \A c \in Calls :
       (run[c].pc # "idle" /\ HasSubagentTail(run[c].key) /\ run[c].parent = <<>>)
         => \A d \in Calls : d # c => run[d].pc = "idle"

\* a run on a sub-agent's session called sessions_spawn while a run was free
\* for the child, and the call failed
C23_Witness ==
  \E c, d \in Calls :
    /\ HasSubagentTail(run[c].key)
    /\ SpawnResult(run[c].key, "Execution error")
    /\ run[d].pc = "idle"

IsPrefix(p, q) == Len(p) <= Len(q) /\ SubSeq(q, 1, Len(p)) = p

\* C24: error surfacing -- when the LLM call fails with an error that is neither
\* retried nor recovered by overflow compaction, an agent_error event carrying
\* the error text is emitted, run() rejects with that error text, and the
\* messages already in the transcript stay in place
C24_ErrorSurfacing ==
  [][ \A c \in Calls :
        run'[c].llmError # <<>> =>
          /\ \E i \in 1..Len(run'[c].events) :
               run'[c].events[i] = EvText("agent_error", run'[c].llmError[1])
          /\ run'[c].pc \in { "finished", "settled" } =>
               /\ run'[c].result.status = "rejected"
               /\ run'[c].result.text = run'[c].llmError[1]
          /\ IsPrefix(transcript[run'[c].key], transcript'[run'[c].key]) ]_vars

\* C25: once abort(runId) has been called for an active run, no further
\* turn_start is emitted for it, no further LLM streaming attempt is started
\* for it, and no tool of it is run: a call started after the abort ends at
\* once with an execution error
C25_AbortObserved ==
  [][ \A c \in Calls :
        /\ CountEvents(run'[c].events, "turn_start") > CountEvents(run[c].events, "turn_start")
             => ~run[c].aborted
        /\ (llmCalls' > llmCalls /\ run'[c] # run[c]) => ~run[c].abortedInSleep
        /\ (/\ run[c].pc = "tool"
            /\ run[c].startedAborted
            /\ run'[c].totalToolCalls > run[c].totalToolCalls)
             => /\ Len(run'[c].toolResults) > Len(run[c].toolResults)
                /\ run'[c].toolResults[Len(run[c].toolResults) + 1].content
                     = "Execution error" ]_vars

\* the tool_use blocks of a message, as pending entries
DeclaredCalls(msg) ==
  [i \in 1..Len(SelectBlocks(msg.blocks, "tool_use")) |->
     [id |-> SelectBlocks(msg.blocks, "tool_use")[i].id,
      name |-> SelectBlocks(msg.blocks, "tool_use")[i].name]]

\* one user message with one synthetic tool_result per pending entry
SyntheticResults(pending) ==
  BlockMessage("user", [i \in 1..Len(pending) |->
                          ToolResultBlock(pending[i].id, pending[i].name, SyntheticText)])

CarriesToolResult(msg) == \E i \in 1..Len(msg.blocks) : msg.blocks[i].type = "tool_result"

\* C26: with pending tool_use ids, an append of a message that carries no
\* tool_result, or a flush, writes exactly one user message holding one
\* synthetic tool_result per pending id, before the incoming message, and none
\* of those ids stays pending (after the append only the incoming message's own
\* tool_use ids are pending); with an empty pending map nothing extra is written
C26_GuardSynthesis ==
  LET b == guardCase.before
      a == guardCase.st
  IN  /\ (guardCase.op = "append" /\ ~CarriesToolResult(guardCase.msg[1])) =>
            /\ a.log = b.log \o (IF b.pending # <<>> THEN <<SyntheticResults(b.pending)>>
                                 ELSE <<>>) \o guardCase.msg
            /\ a.pending = DeclaredCalls(guardCase.msg[1])
      /\ guardCase.op = "flush" =>
            /\ a.log = b.log \o (IF b.pending # <<>> THEN <<SyntheticResults(b.pending)>>
                                 ELSE <<>>)
            /\ a.pending = <<>>

\* two ids are pending when an assistant message with a new tool_use arrives
C26_Witness ==
  /\ guardCase.op = "append"
  /\ Len(guardCase.before.pending) = 2
  /\ DeclaredCalls(guardCase.msg[1]) # <<>>
  /\ Len(guardCase.st.log) = Len(guardCase.before.log) + 2

\* the ids of the blocks of one type in a message, in order
BlockIds(msg, ty) ==
  [i \in 1..Len(SelectBlocks(msg.blocks, ty)) |-> SelectBlocks(msg.blocks, ty)[i].id]

CallIds(calls) == [i \in 1..Len(calls) |-> calls[i].id]

\* C27: after the loop persists an assistant message with tool calls c1..cn,
\* the calls are executed one at a time in that order, the loop persists
\* nothing in between, and the next message it persists is one user message
\* of exactly n tool_result blocks with the ids c1..cn in order: results of
\* the executed calls first, skip placeholders for the calls not executed
C27_ToolResultsInOrder ==
  [][ \A c \in Calls :
        LET r == run[c]
            r2 == run'[c]
            s == r2.key
            log == transcript[s]
            log2 == transcript'[s]
            m == log2[Len(log2)]
        IN  /\ (r.pc = "llm" /\ r2.pc = "tool") =>
                  /\ log2 = Append(log, m)
                  /\ m.role = "assistant"
                  /\ BlockIds(m, "tool_use") = CallIds(r2.toolCalls)
                  /\ r2.toolIdx = 1
                  /\ r2.toolResults = <<>>
            /\ (r.pc = "tool" /\ r2.pc = "tool") =>
                  /\ r2.toolCalls = r.toolCalls
                  /\ IF r2.totalToolCalls > r.totalToolCalls
                     THEN /\ r2.toolIdx = r.toolIdx + 1
                          /\ Len(r2.toolResults) = r.toolIdx
                          /\ r2.toolResults[r.toolIdx].id = r.toolCalls[r.toolIdx].id
                     ELSE r2.toolIdx = r.toolIdx /\ r2.toolResults = r.toolResults
                  /\ r2.currentMessages = r.currentMessages
                  /\ \A j \in 1..Len(log2) : j > Len(log) => writers'[s][j].call # c
            /\ (r.pc = "tool" /\ r2.pc = "top") =>
                  /\ log2 = Append(log, m)
                  /\ m.role = "user"
                  /\ ~m.str
                  /\ Len(m.blocks) = Len(r.toolCalls)
                  /\ BlockIds(m, "tool_result") = CallIds(r.toolCalls)
                  /\ \A j \in 1..Len(m.blocks) :
                        (m.blocks[j].content = SkippedText) <=> (j > r.toolIdx) ]_vars

\* a batch of two calls ended after its first call because a message was steered
C27_Witness ==
  \E c \in Calls :
    /\ run[c].pc = "top"
    /\ Len(run[c].toolCalls) = 2
    /\ run[c].toolIdx = 1
    /\ Len(transcript[run[c].key]) > 0
    /\ LET m == transcript[run[c].key][Len(transcript[run[c].key])]
       IN  /\ BlockIds(m, "tool_result") = CallIds(run[c].toolCalls)
           /\ m.blocks[1].content # SkippedText
           /\ m.blocks[2].content = SkippedText

\* C28: the loop starts no turn once turns >= maxTurns: every turn_start
\* carries a turn number <= maxTurns, the turn count (and the count the run
\* reports at its end) never exceeds maxTurns, also while tool calls or
\* steered messages are still pending
C28_MaxTurnsBound ==
  [][ \A c \in Calls :
        /\ CountEvents(run'[c].events, "turn_start") > CountEvents(run[c].events, "turn_start")
             => run[c].turns < MaxTurns
        /\ \A i \in 1..Len(run'[c].events) :
             run'[c].events[i].type = "turn_start" => run'[c].events[i].n <= MaxTurns
        /\ run'[c].turns <= MaxTurns
        /\ \A i \in 1..Len(run'[c].streamResult) : run'[c].streamResult[i].turns <= MaxTurns
        /\ run'[c].result.turns <= MaxTurns ]_vars

\* the loop ended at maxTurns although the last turn's tool calls ask for another
C28_Witness ==
  \E c \in Calls :
    /\ run[c].pc = "ended"
    /\ run[c].loopError = ""
    /\ ~run[c].aborted
    /\ run[c].turns = MaxTurns
    /\ run[c].hasMoreToolCalls
    /\ CountEvents(run[c].events, "turn_start") = MaxTurns
    /\ HasEvent(c, "agent_end")

\* the input message an output message of the pruner stems from
PruneSource(m) ==
  CHOOSE src \in SeqRange(pruneCase.messages) : src.timestamp = m.timestamp

\* C29: a tool_result of a tool whose name settings.tools.deny denies, or
\* which a non-empty settings.tools.allow does not match, comes out of
\* pruneContextMessages neither trimmed nor cleared; with an empty allow list
\* the results of every tool that is not denied are prunable
C29_PrunablePredicate ==
  pruneCase.stage \in { "pruned", "repruned" } =>
    /\ \A m \in SeqRange(pruneCase.first.messages)
               \cup SeqRange(pruneCase.first.droppedMessages) :
         \A j \in 1..Len(m.blocks) :
           (/\ m.blocks[j].type = "tool_result"
            /\ ~makeToolPrunablePredicate(pruneCase.tools, PruneSource(m).blocks[j].name))
             => m.blocks[j] = PruneSource(m).blocks[j]
    /\ \A i \in 1..Len(pruneCase.messages) :
         \A j \in 1..Len(pruneCase.messages[i].blocks) :
           LET b == pruneCase.messages[i].blocks[j]
           IN  (/\ b.type = "tool_result"
                /\ pruneCase.tools[1].allow = <<>>
                /\ makeToolPrunablePredicate(pruneCase.tools, b.name))
                 => canPrune(b, pruneCase.tools)

\* the history layer 3 works on: the input messages as layers 1 and 2 left them
PruneCurrent ==
  [i \in 1..Len(pruneCase.messages) |->
     CHOOSE m \in SeqRange(pruneCase.first.messages)
                    \cup SeqRange(pruneCase.first.droppedMessages) :
       m.timestamp = pruneCase.messages[i].timestamp]

\* position p holds the keepLastAssistants-th assistant message from the end
IsAssistantCutoff(cur, p) ==
  /\ cur[p].role = "assistant"
  /\ Cardinality({ k \in p..Len(cur) : cur[k].role = "assistant" }) = KeepLastAssistants

\* the history is over the budget while the protected suffix from p on fits
ProtectedSuffixFits(cur, p) ==
  /\ IsAssistantCutoff(cur, p)
  /\ estimateMessagesChars(cur) > pruneCase.first.budgetChars
  /\ estimateMessagesChars(SubSeq(cur, p, Len(cur))) <= pruneCase.first.budgetChars

\* C30: when the history exceeds budgetChars and the last keepLastAssistants
\* assistant messages with everything after them fit within budgetChars, every
\* message of that suffix is kept, only older messages are dropped, and the
\* kept messages reach back without a gap to the first older message that no
\* longer fits
C30_ProtectedSuffix ==
  pruneCase.stage \in { "pruned", "repruned" } =>
    LET cur == PruneCurrent
        n == Len(cur)
        budget == pruneCase.first.budgetChars
    IN  \A p \in 1..n :
          ProtectedSuffixFits(cur, p) =>
            \E q \in 1..p :
              /\ pruneCase.first.messages = SubSeq(cur, q, n)
              /\ pruneCase.first.droppedMessages = SubSeq(cur, 1, q - 1)
              /\ estimateMessagesChars(SubSeq(cur, q, n)) <= budget
              /\ q > 1 => estimateMessageChars(cur[q - 1])
                             > budget - estimateMessagesChars(SubSeq(cur, q, n))

\* an older message was kept in front of the protected suffix, the next older
\* one did not fit, and a still older one that would have fit was dropped
C30_Witness ==
  /\ pruneCase.stage = "pruned"
  /\ \E p \in 1..Len(pruneCase.messages) :
       /\ ProtectedSuffixFits(PruneCurrent, p)
       /\ Len(pruneCase.first.messages) > Len(pruneCase.messages) - p + 1
  /\ Len(pruneCase.first.droppedMessages) >= 2
  /\ estimateMessageChars(pruneCase.first.droppedMessages[1])
       <= pruneCase.first.budgetChars - estimateMessagesChars(pruneCase.first.messages)

\* the runs that are the active task of a lane
LaneActiveRuns(lane) ==
  { c \in LaneCalls :
      IF lane = resolveGlobalLane
      THEN laneCase.run[c].pc = "setup"
      ELSE /\ laneCase.run[c].pc \in { "globalQueue", "setup" }
           /\ resolveSessionLane(laneCase.run[c].key) = lane }

\* C31: a lane's active count is never negative and is exactly the number of
\* its tasks that were started and have not settled (one decrement per settle,
\* fulfilled or rejected), and every queued task is started at some time when
\* the tasks ahead of it settle
C31_LaneProgress ==
  /\ [](\A lane \in LaneIds :
          /\ laneCase.lanes[lane].active >= 0
          /\ laneCase.lanes[lane].active = Cardinality(LaneActiveRuns(lane)))
  /\ \A c \in LaneCalls :
       (laneCase.run[c].pc \in { "sessionQueue", "globalQueue" })
         ~> LaneRunning(laneCase, c)

\* a run was started after the run ahead of it in its session lane was rejected
C31_Witness ==
  \E c, d \in LaneCalls :
    /\ c < d
    /\ laneCase.run[c].key = laneCase.run[d].key
    /\ laneCase.run[c].pc = "settled"
    /\ laneCase.run[c].result.status = "rejected"
    /\ laneCase.run[d].pc = "setup"

\* the calls that have an entry in the global lane, queued or active
GlobalLaneCalls ==
  { laneCase.lanes[resolveGlobalLane].queue[i].call :
      i \in 1..Len(laneCase.lanes[resolveGlobalLane].queue) }
    \cup { c \in LaneCalls : laneCase.run[c].pc = "setup" }

\* C32: a run has a global-lane entry only while it is the active task of its
\* session lane; a run waiting in its session lane has none; and per session
\* key at most one global-lane entry, queued or active, exists
C32_LaneNesting ==
  /\ \A c \in GlobalLaneCalls :
       /\ laneCase.run[c].pc \in { "globalQueue", "setup" }
       /\ laneCase.lanes[resolveSessionLane(laneCase.run[c].key)].active = 1
       /\ \A i \in 1..Len(laneCase.lanes[resolveSessionLane(laneCase.run[c].key)].queue) :
            laneCase.lanes[resolveSessionLane(laneCase.run[c].key)].queue[i].call # c
  /\ \A c \in LaneCalls :
       laneCase.run[c].pc = "sessionQueue" => c \notin GlobalLaneCalls
  /\ \A c, d \in GlobalLaneCalls :
       laneCase.run[c].key = laneCase.run[d].key => c = d
  /\ \A i, j \in 1..Len(laneCase.lanes[resolveGlobalLane].queue) :
       laneCase.lanes[resolveGlobalLane].queue[i].call
         = laneCase.lanes[resolveGlobalLane].queue[j].call => i = j

\* one run is active, a run of the same session waits behind it in the session
\* lane, and a run of another session is queued for a global slot
C32_Witness ==
  \E c, d, e \in LaneCalls :
    /\ laneCase.run[c].pc = "setup"
    /\ laneCase.run[d].pc = "sessionQueue"
    /\ laneCase.run[d].key = laneCase.run[c].key
    /\ laneCase.run[e].pc = "globalQueue"
    /\ laneCase.run[e].key # laneCase.run[c].key
    /\ Len(laneCase.lanes[resolveGlobalLane].queue) = 1


\* the summarize calls numbered k0+1..k1 that rejected
RejectedCalls(k0, k1) ==
  { i \in (k0 + 1)..k1 : ~summarizeReturns(compactCase.outcomes, i) }

\* one summarizeWithFallback evaluation, judged by the summarize calls it made
FallbackAsStated(c) ==
  LET rejected == RejectedCalls(c.k, c.result.k)
      small == smallMessages(c.messages, ContextTokens)
      maxChunkTokens == adaptiveMaxChunkTokens(compactCase.messages, ContextTokens)
      firstRejected == CHOOSE i \in rejected : \A j \in rejected : i <= j
  IN  /\ ~c.result.threw
      /\ Cardinality(rejected) <= 2
      /\ rejected = {} => c.result.text = LlmSummary
      /\ rejected # {} =>
           \* after the first rejection, the calls made are those for the small messages
           /\ small # <<>> =>
                c.result.k - firstRejected
                  <= Len(chunkMessagesByMaxTokens(small, maxChunkTokens))
           /\ small = <<>> => c.result.k = firstRejected
           /\ (Cardinality(rejected) = 1 /\ small # <<>>) =>
                /\ c.result.text.kind = "summary"
                /\ c.result.k - firstRejected
                     = Len(chunkMessagesByMaxTokens(small, maxChunkTokens))
                /\ Len(c.result.text.notes) = Len(c.messages) - Len(small)
           /\ (Cardinality(rejected) = 2 \/ small = <<>>) =>
                c.result.text = SizeLimitsText(Len(c.messages))

\* C33: when summarize fails, summarization is retried once on the messages that are
\* not oversized; when that fails too, or no such message remains, the fixed text
\* "Context contained N messages. Summary unavailable due to size limits." is the
\* result; no summarizer failure leaves the compaction, in the single-part and in
\* the split-and-merge path.
C33_SummarizeFallback ==
  compactCase.done =>
    /\ ~compactCase.summary.threw
    /\ compactCase.summary.path \in {"single", "multi"}
    /\ \A i \in 1..Len(compactCase.summary.calls) :
         FallbackAsStated(compactCase.summary.calls[i])

C33_Witness ==
  /\ compactCase.done
  /\ compactCase.summary.path = "multi"
  /\ \E i, j \in 1..Len(compactCase.summary.calls) :
       /\ compactCase.summary.calls[i].result.text.kind = "fixed"
       /\ compactCase.summary.calls[j].result.text.notes # <<>>
       /\ Cardinality(RejectedCalls(compactCase.summary.calls[j].k,
                                    compactCase.summary.calls[j].result.k)) = 1


\* C34: after stop() no coalescing timeout and no interval timeout is armed, no
\* pending reason and no scheduled flag is set, and the wake layer invokes the
\* handler only after a later start(), requestNow() or trigger(), also when an
\* execution was in flight at the stop()
C34_HeartbeatStop ==
  [][ /\ (heartbeat' # heartbeat /\ heartbeat'.last = "stop") =>
            /\ ~heartbeat'.timer
            /\ heartbeat'.wakeTimeouts = 0
            /\ ~heartbeat'.stateTimer
            /\ heartbeat'.intervalTimeouts = 0
            /\ heartbeat'.pendingReason = ""
            /\ ~heartbeat'.scheduled
      /\ (WakeFired /\ heartbeat'.last = "fireInvoke") => ~heartbeat.quiet ]_vars


\* C40: at most one interval timeout of the policy layer is armed at any time,
\* for any sequence of start(), stop(), trigger(), requestNow(), updateConfig()
\* and timer firings
C40_SingleIntervalTimer ==
  heartbeat.intervalTimeouts <= 1


\* C35: a request() made while the wake layer's handler execution is in flight
\* is followed, after that execution has ended, by another handler invocation,
\* unless stop() comes first; and a firing during the execution starts no
\* execution
C35_DoubleBuffering ==
  /\ [][ (WakeFired /\ heartbeat.running) =>
            /\ heartbeat'.last = "fireBusy"
            /\ heartbeat'.executions = heartbeat.executions
            /\ heartbeat'.pendingReason = heartbeat.pendingReason
            /\ heartbeat'.timer ]_vars
  /\ heartbeat.buffered ~>
       \/ heartbeat.last = "fireInvoke" /\ heartbeat.servedBuffered
       \/ heartbeat.quiet

\* the handler is invoked again for a request that came during an execution
C35_Witness ==
  /\ heartbeat.last = "fireInvoke"
  /\ heartbeat.servedBuffered
  /\ heartbeat.served >= 1
  /\ ~heartbeat.quiet


TerminalEvents(c) ==
  { i \in 1..Len(run[c].events) : run[c].events[i].type \in { "agent_end", "agent_error" } }

\* C36: the events of a run hold at most one terminal event (agent_end or
\* agent_error), nothing follows it, and a finished run has exactly one
C36_OneTerminalEvent ==
  \A c \in Calls :
    /\ Cardinality(TerminalEvents(c)) <= 1
    /\ TerminalEvents(c) \subseteq { Len(run[c].events) }
    /\ Finished(c) => TerminalEvents(c) # {}


LoopOver(c) == run[c].pc \in { "ended", "finished", "settled" }

\* C37: every text the loop drains from the session's steering queue is appended
\* to the session's transcript once, as a user message, in steer() order: a
\* drain takes the whole queue in order, the start of a turn appends exactly the
\* drained messages, a queue only changes by steer() and by a drain, and no
\* drained message is still waiting when the loop is over
C37_NoSteeringLost ==
  /\ [](\A c \in Calls : LoopOver(c) => run[c].pendingMessages = <<>>)
  /\ [][\A c \in Calls :
          /\ (run[c].pc = "top" /\ run'[c].pc = "llm") =>
                NewEntries(run[c].key) = run[c].pendingMessages
          /\ (run'[c].pendingMessages # run[c].pendingMessages
                /\ run'[c].pendingMessages # <<>>) =>
                /\ run'[c].pendingMessages = getSteeringMessages(steeringQueues[run'[c].key])
                /\ steeringQueues'[run'[c].key] = <<>>]_vars
  /\ [][\A k \in KeyStrings :
          steeringQueues'[k] # steeringQueues[k] =>
            \/ \E text \in SteerTexts : steeringQueues'[k] = Append(steeringQueues[k], text)
            \/ /\ steeringQueues'[k] = <<>>
               /\ \E c \in Calls :
                    /\ run'[c].key = k
                    /\ run'[c].pendingMessages = getSteeringMessages(steeringQueues[k])]_vars


\* the tool_result blocks of a transcript that answer id, by message and block position
ResultsFor(log, id) ==
  { p \in (1..Len(log)) \X (1..MaxTools) :
      /\ log[p[1]].role = "user"
      /\ ~log[p[1]].str
      /\ p[2] <= Len(log[p[1]].blocks)
      /\ log[p[1]].blocks[p[2]].type = "tool_result"
      /\ log[p[1]].blocks[p[2]].id = id }

\* C38: in a session transcript each tool_use id is answered by at most one
\* tool_result block, a synthesized placeholder or the real result, never both
C38_OneResultPerToolUse ==
  \A s \in SessionKeys : \A id \in 1..nextToolId :
    Cardinality(ResultsFor(transcript[s], id)) <= 1


\* the turn_start and turn_end events of a run, in the order emitted
TurnEvents(c) ==
  SelectSeq(run[c].events, LAMBDA e : e.type \in { "turn_start", "turn_end" })

\* C39: in the events of a run turn_start and turn_end alternate and the turn
\* numbers go 1, 2, 3, ...: the i-th turn_start carries i and is followed by
\* turn_end(i) before the next turn_start, also across a context-overflow retry;
\* only a run that ended in agent_error has its last turn_start unmatched
C39_TurnEventsAlternate ==
  \A c \in Calls :
    LET turnEvents == TurnEvents(c)
    IN  /\ \A i \in 1..Len(turnEvents) :
             /\ turnEvents[i].type = IF i % 2 = 1 THEN "turn_start" ELSE "turn_end"
             /\ turnEvents[i].n = (i + 1) \div 2
        /\ (LoopOver(c) /\ Len(turnEvents) % 2 = 1) => HasEvent(c, "agent_error")

=============================================================================
